---- MODULE Spec2Model ----
(***************************************************************************)
(* Model of the workflow execution engine of ai-git                       *)
(* (cmd/workflow.go: WorkflowExecutor.Execute, executeStep and the seven   *)
(* action handlers) together with the parts of the VCS client              *)
(* (internal/git/git.go) and of the text-generation client                 *)
(* (internal/ai/client.go) that the engine calls.                          *)
(*                                                                         *)
(* One behaviour of Spec is one call of Execute() on an executor built by  *)
(* runWorkflowRun.  Every loop iteration of Execute is one action; the     *)
(* facade calls made during the iteration, the notifications sent to the   *)
(* presentation facade and the handler dispatch are appended, in program   *)
(* order, to the history variable trace.                                   *)
(*                                                                         *)
(* One behaviour of CliSpec is a sequence of invocations of the            *)
(* "ai-git workflow" commands run, create, delete, enable and disable      *)
(* over the configuration files; a run command that passes its gates       *)
(* builds the executor and goes through Execute() as in Spec.              *)
(*                                                                         *)
(* FairSpec is Spec with the progress of a sequential function, ReuseSpec  *)
(* lets a caller call Execute() a second time on the same executor, and    *)
(* one behaviour of FormatSpec is one call of formatDiffForAI, a loop      *)
(* iteration at a time.                                                    *)
(***************************************************************************)
EXTENDS Integers, Sequences, FiniteSets, TLC

VARIABLES
    workflow,   \* e.workflow: the WorkflowConfig bound to the executor
    dryRun,     \* e.dryRun
    skipSteps,  \* e.skipSteps: the list of skip selectors
    aiClient,   \* e.aiClient # nil
    context,    \* e.context: WorkflowContext {Branch, Message, Data}
    pc,         \* position of Execute(): "start", "loop", "done"
    idx,        \* 1-based position of the step the loop looks at next
    result,     \* value returned by Execute(): Pending until it returns
    trace,      \* history: every notification, dispatch and facade call
    store,      \* the workflows held by each configuration file
    command,    \* the command line of the process, and its ordinal
    prompt      \* a call of formatDiffForAI: its arguments and what it wrote

vars == <<workflow, dryRun, skipSteps, aiClient, context, pc, idx, result, trace,
          store, command, prompt>>

(***************************************************************************)
(* Bounds of the model.                                                    *)
(***************************************************************************)
MaxSteps == 2

\* The number of commands a behaviour of CliSpec invokes.
MaxCommands == 2

\* The number of steps the user enters in the create command.
MaxEntered == 2

\* The largest number of files of a diff, and the largest number of lines
\* of the content of a file.
MaxFiles == 2

MaxContentLines == 54

(***************************************************************************)
(* Values.                                                                 *)
(***************************************************************************)
Nil == [kind |-> "nil"]

Pending == [kind |-> "pending"]

NoParameters == [k \in {} |-> ""]

NameParameter(n) == [k \in {"name"} |-> n]

EmptyData == [k \in {} |-> ""]

WorkflowStep(name, action, parameters, continueOnError) ==
    [Name |-> name, Action |-> action, Parameters |-> parameters,
     ContinueOnError |-> continueOnError]

WorkflowContext(branch, message, dataNil, data) ==
    [Branch |-> branch, Message |-> message, DataNil |-> dataNil, Data |-> data]

\* The steps a bounded workflow definition is built from: every action of
\* the dispatch table, an action outside it, both settings of
\* continue_on_error, branch steps with and without parameters["name"], and
\* a step whose name reads like an ordinal.
StepUniverse ==
    { WorkflowStep("Generate commit message", "ai-commit", NoParameters, FALSE),
      WorkflowStep("Stage files", "git-add", NoParameters, FALSE),
      WorkflowStep("Commit changes", "git-commit", NoParameters, FALSE),
      WorkflowStep("2", "git-push", NoParameters, TRUE),
      WorkflowStep("New branch", "create-branch", NameParameter("dev"), FALSE),
      WorkflowStep("Branch", "create-branch", NoParameters, TRUE),
      WorkflowStep("Unnamed branch", "create-branch", NameParameter(""), FALSE),
      WorkflowStep("Switch", "checkout-branch", NameParameter("dev"), FALSE),
      WorkflowStep("Open PR", "create-pr", NoParameters, FALSE),
      WorkflowStep("Deploy", "deploy", NoParameters, FALSE) }

StepLists == UNION { [1..n -> StepUniverse] : n \in 0..MaxSteps }

WorkflowConfig(name, steps, enabled) ==
    [Name |-> name, Steps |-> steps, Enabled |-> enabled]

\* The two workflows of defaultConfig, enabled by "workflow enable".
DefaultWorkflows ==
    { WorkflowConfig("auto-commit-push",
        << WorkflowStep("Generate commit message", "ai-commit", NoParameters, FALSE),
           WorkflowStep("Stage files", "git-add", NoParameters, FALSE),
           WorkflowStep("Commit changes", "git-commit", NoParameters, FALSE) >>,
        TRUE),
      WorkflowConfig("feature-branch-workflow",
        << WorkflowStep("Generate commit message", "ai-commit", NoParameters, FALSE),
           WorkflowStep("Commit changes", "git-commit", NoParameters, FALSE),
           WorkflowStep("Push to origin", "git-push", NoParameters, FALSE),
           WorkflowStep("Create pull request", "create-pr", NoParameters, FALSE) >>,
        TRUE) }

\* The workflow definitions a run is checked for: the default ones and
\* every definition of at most MaxSteps steps over StepUniverse.  The run
\* command builds an executor for enabled workflows only.
Workflows ==
    DefaultWorkflows \cup { WorkflowConfig("custom", steps, TRUE) : steps \in StepLists }

\* Values of the --skip flag.
SkipLists == { <<>>, <<"2">>, <<"Stage files", "02">> }

\* Values of the --branch and --message flags ("" is the flag's default).
ContextFlags ==
    { [Branch |-> "", Message |-> ""],
      [Branch |-> "main", Message |-> ""],
      [Branch |-> "", Message |-> "fix: y"] }

(***************************************************************************)
(* Errors and history records.                                             *)
(***************************************************************************)
\* fmt.Errorf(format, arg) and fmt.Errorf(format + ": %w", arg, cause).
Errorf(format, arg, cause) ==
    [kind |-> "error", format |-> format, arg |-> arg, cause |-> cause]

\* An error returned by the go-git library or by the HTTP layer.
LibraryError(what) == Errorf(what, "", Nil)

IsError(err) == err.kind = "error"

\* A notification sent to the presentation facade (internal/ui/ui.go).
Notify(level, format, args) ==
    [kind |-> "ui", op |-> level, format |-> format, args |-> args]

\* A call of ui.Input with the text it returned, and a call of ui.Confirm
\* with the answer it returned.
UiInput(label, value, err) ==
    [kind |-> "ui", op |-> "Input", format |-> label, args |-> <<>>,
     res |-> [value |-> value, err |-> err]]

UiConfirm(confirmed, err) ==
    [kind |-> "ui", op |-> "Confirm", format |-> "Delete workflow '%s'?", args |-> <<>>,
     res |-> [confirmed |-> confirmed, err |-> err]]

\* A call of config.Save with the workflows of the configuration handed over.
SaveCall(workflows, err) ==
    [kind |-> "config", op |-> "Save", workflows |-> workflows, err |-> err]

\* A call of the VCS facade (internal/git/git.go) with its result.
VcsCall(op, args, res) ==
    [kind |-> "vcs", op |-> op, args |-> args, res |-> res]

\* A call of the text-generation facade (internal/ai/client.go).
AiCall(op, diff, res) ==
    [kind |-> "ai", op |-> op, diff |-> diff, res |-> res]

\* A getDiff call, with the view of the repository it was answered from.
DiffCall(op, view, res) ==
    [kind |-> "vcs", op |-> op, args |-> <<>>, res |-> res, view |-> view]

\* executeStep entered; an action handler entered, with the Context it
\* found; executeStep returned, with its error and the Context it left.
Dispatched(step) == [kind |-> "dispatch", op |-> step.Action, name |-> step.Name]

Handled(handler, step, ctx) ==
    [kind |-> "handler", op |-> handler, name |-> step.Name, context |-> ctx]

Returned(step, err, ctx) ==
    [kind |-> "returned", op |-> step.Action, name |-> step.Name, err |-> err,
     context |-> ctx]

\* Every history record carries the 1-based position of the step it
\* belongs to (0 for records written outside the loop body).
At(i, events) ==
    [k \in 1..Len(events) |-> [step |-> i, ev |-> events[k]]]

\* What a handler hands back: its error, the Context it leaves, its records.
Return(err, ctx, events) == [err |-> err, context |-> ctx, events |-> events]

(***************************************************************************)
(* fmt.Sprintf("%d", n) for n >= 0.                                        *)
(***************************************************************************)
Digit == <<"0", "1", "2", "3", "4", "5", "6", "7", "8", "9">>

RECURSIVE DecimalString(_)
DecimalString(n) ==
    IF n < 10 THEN Digit[n + 1]
    ELSE DecimalString(n \div 10) \o Digit[(n % 10) + 1]

(***************************************************************************)
(* The VCS facade.  The repository and the work tree belong to the         *)
(* environment: each call sees a view of them chosen by the environment.   *)
(***************************************************************************)
Unmodified == " "

Modified == "M"

FileStatus(path, staging, worktree) ==
    [Path |-> path, Staging |-> staging, Worktree |-> worktree]

\* A view of the repository as one getDiff call finds it: whether HEAD
\* resolves, whether workTree.Status() succeeds, and the status entries in
\* the order the map iteration yields them.
RepoView(headOk, statusOk, status) ==
    [headOk |-> headOk, statusOk |-> statusOk, status |-> status]

\* HEAD missing, Status() failing, and a work tree whose one entry is
\* clean, staged only, or changed in the work tree only.
RepoViews ==
    { RepoView(FALSE, TRUE, <<>>),
      RepoView(TRUE, FALSE, <<>>),
      RepoView(TRUE, TRUE, <<FileStatus("x.go", Unmodified, Unmodified)>>),
      RepoView(TRUE, TRUE, <<FileStatus("x.go", Modified, Unmodified)>>),
      RepoView(TRUE, TRUE, <<FileStatus("x.go", Unmodified, Modified)>>) }

FileDiff(fileStatus) == [Path |-> fileStatus.Path, Status |-> fileStatus.Worktree]

RECURSIVE CollectDiff(_, _)
CollectDiff(staged, status) ==
    IF status = <<>> THEN <<>>
    ELSE LET fileStatus == Head(status)
             skip == \/ staged /\ fileStatus.Staging = Unmodified
                     \/ ~staged /\ fileStatus.Worktree = Unmodified
         IN (IF skip THEN <<>> ELSE <<FileDiff(fileStatus)>>)
            \o CollectDiff(staged, Tail(status))

\* Client.getDiff: [Files, err].
getDiff(staged, view) ==
    IF ~view.headOk
    THEN [Files |-> <<>>, err |-> Errorf("failed to get HEAD: %w", "", LibraryError("reference not found"))]
    ELSE IF ~view.statusOk
    THEN [Files |-> <<>>, err |-> Errorf("failed to get status: %w", "", LibraryError("status"))]
    ELSE [Files |-> CollectDiff(staged, view.status), err |-> Nil]

GetDiff(view) == getDiff(FALSE, view)

GetStagedDiff(view) == getDiff(TRUE, view)

\* Outcomes of the go-git calls behind Add, Push, CreateBranch and
\* CheckoutBranch: the library's error is handed back as it is.
LibraryOutcomes == { Nil, LibraryError("go-git") }

\* Client.Commit wraps the library's error.
Commit(message, outcome) ==
    IF IsError(outcome)
    THEN [commit |-> Nil, err |-> Errorf("failed to create commit: %w", "", outcome)]
    ELSE [commit |-> [Message |-> message], err |-> Nil]

(***************************************************************************)
(* The text-generation facade.  A provider returns the trimmed text of    *)
(* the backend's answer, which may be empty, or an error; the 30 s         *)
(* deadline of the caller's context surfaces as an error as well.          *)
(***************************************************************************)
GenerateOutcomes ==
    { [text |-> "feat: add x", err |-> Nil],
      [text |-> "", err |-> Nil],
      [text |-> "", err |-> LibraryError("API error")],
      [text |-> "", err |-> LibraryError("context deadline exceeded")] }

(***************************************************************************)
(* formatDiffForAI: the text handed to the text-generation facade.  A file *)
(* of the diff carries its content as strings.Split(file.Content, "\n")    *)
(* yields it, every line standing for its length in bytes; the text built  *)
(* is the sequence of the strings written to it.  prompt holds the         *)
(* arguments of the call, its locals (result as text, lineCount, the       *)
(* 1-based positions of the two loops) and where the call is.              *)
(***************************************************************************)
\* if len(line) > 200
MaxLineLength == 200

\* if i > 50
FileLineLimit == 50

\* git.max_diff_lines of defaultConfig
DefaultMaxDiffLines == 1000

\* A git.FileDiff as formatDiffForAI reads it.
ChangedFile(path, status, additions, deletions, content) ==
    [Path |-> path, Status |-> status, Additions |-> additions,
     Deletions |-> deletions, Content |-> content]

\* strings.Split("", "\n"): one empty line.
EmptyContent == <<0>>

\* The strings formatDiffForAI writes.
Summary(files) == [kind |-> "summary", n |-> Len(files)]

FileHeader(f, file) ==
    [kind |-> "header", file |-> f, path |-> file.Path, status |-> file.Status]

FileChanges(f, file) ==
    [kind |-> "changes", file |-> f, additions |-> file.Additions,
     deletions |-> file.Deletions]

ContentLine(f, i, length) == [kind |-> "content", file |-> f, line |-> i, length |-> length]

LineTooLong(f, i) == [kind |-> "content", file |-> f, line |-> i, length |-> -1]

Truncated(f) == [kind |-> "truncated", file |-> f]

FileTruncated(f) == [kind |-> "file truncated", file |-> f]

FilesTruncated(n) == [kind |-> "files truncated", n |-> n]

EndOfFile(f) == [kind |-> "blank", file |-> f]

\* Variant: the limit is passed before it is noticed.
LimitReached_OffByOne(lineCount, maxLines) == lineCount > maxLines

\* if lineCount >= maxLines
LimitReached(lineCount, maxLines) == lineCount >= maxLines

\* if len(line) > 200 { "... (line too long)" } else { line }
WrittenLine(f, i, length) ==
    IF length > MaxLineLength THEN LineTooLong(f, i) ELSE ContentLine(f, i, length)

\* if i > 50, for the line at 1-based position i
PastFileLimit(i) == i - 1 > FileLineLimit

\* if file.Additions > 0 || file.Deletions > 0 { "Changes: +%d -%d" }
ChangesLine(f, file) ==
    IF file.Additions > 0 \/ file.Deletions > 0 THEN <<FileChanges(f, file)>> ELSE <<>>

(***************************************************************************)
(* The action handlers (cmd/workflow.go).  Each takes the step, the        *)
(* Context it finds and the answers of the environment to the calls it     *)
(* makes, and hands back its error, the Context it leaves and its records. *)
(***************************************************************************)
\* Variant: the emptiness test never fires.
NoChanges_Never(diff) == Len(diff.Files) < 0

\* len(diff.Files) == 0
NoChanges(diff) == Len(diff.Files) = 0

\* Variant: a message the Context already holds is kept.
StoreMessage_KeepsMessage(ctx, message) ==
    IF ctx.Message # "" THEN ctx
    ELSE [ctx EXCEPT !.Message = message,
                     !.Data = [k \in (DOMAIN ctx.Data) \cup {"commit_message"} |->
                                  IF k = "commit_message" THEN message ELSE ctx.Data[k]]]

\* e.context.Data["commit_message"] = message; e.context.Message = message
StoreMessage(ctx, message) ==
    [ctx EXCEPT !.Message = message,
                !.Data = [k \in (DOMAIN ctx.Data) \cup {"commit_message"} |->
                             IF k = "commit_message" THEN message ELSE ctx.Data[k]]]

\* Variant: a generation call that returned an error is issued once more.
executeAICommit_RetriesOnce(step, ctx, hasAI, stagedView, unstagedView, generated) ==
    LET entered == <<Handled("executeAICommit", step, ctx)>>
        staged == GetStagedDiff(stagedView)
        unstaged == GetDiff(unstagedView)
        stagedCall == DiffCall("GetStagedDiff", stagedView, staged)
        unstagedCall == DiffCall("GetDiff", unstagedView, unstaged)
        diff == IF IsError(staged.err) THEN unstaged ELSE staged
        diffCalls == IF IsError(staged.err) THEN <<stagedCall, unstagedCall>>
                     ELSE <<stagedCall>>
        generateCall == AiCall("GenerateCommitMessage", diff.Files, generated)
        message == generated.text
    IN IF ~hasAI
       THEN Return(Errorf("AI client not available", "", Nil), ctx, entered)
       ELSE IF IsError(staged.err) /\ IsError(unstaged.err)
       THEN Return(Errorf("failed to get diff: %w", "", unstaged.err), ctx,
                   entered \o diffCalls)
       ELSE IF NoChanges(diff)
       THEN Return(Nil, ctx,
                   entered \o diffCalls
                   \o <<Notify("Warning", "No changes to commit", <<>>)>>)
       ELSE IF IsError(generated.err)
       THEN Return(Errorf("failed to generate commit message: %w", "", generated.err),
                   ctx,
                   entered \o diffCalls
                   \o <<Notify("StartSpinner", "Generating AI commit message...", <<>>),
                        generateCall,
                        generateCall,
                        Notify("StopSpinner", "", <<>>)>>)
       ELSE Return(Nil,
                   StoreMessage(ctx, message),
                   entered \o diffCalls
                   \o <<Notify("StartSpinner", "Generating AI commit message...", <<>>),
                        generateCall,
                        Notify("StopSpinner", "", <<>>),
                        Notify("Info", "Generated commit message: %s", <<message>>)>>)

executeAICommit(step, ctx, hasAI, stagedView, unstagedView, generated) ==
    LET entered == <<Handled("executeAICommit", step, ctx)>>
        staged == GetStagedDiff(stagedView)
        unstaged == GetDiff(unstagedView)
        stagedCall == DiffCall("GetStagedDiff", stagedView, staged)
        unstagedCall == DiffCall("GetDiff", unstagedView, unstaged)
        diff == IF IsError(staged.err) THEN unstaged ELSE staged
        diffCalls == IF IsError(staged.err) THEN <<stagedCall, unstagedCall>>
                     ELSE <<stagedCall>>
        generateCall == AiCall("GenerateCommitMessage", diff.Files, generated)
        message == generated.text
    IN IF ~hasAI
       THEN Return(Errorf("AI client not available", "", Nil), ctx, entered)
       ELSE IF IsError(staged.err) /\ IsError(unstaged.err)
       THEN Return(Errorf("failed to get diff: %w", "", unstaged.err), ctx,
                   entered \o diffCalls)
       ELSE IF NoChanges(diff)
       THEN Return(Nil, ctx,
                   entered \o diffCalls
                   \o <<Notify("Warning", "No changes to commit", <<>>)>>)
       ELSE IF IsError(generated.err)
       THEN Return(Errorf("failed to generate commit message: %w", "", generated.err),
                   ctx,
                   entered \o diffCalls
                   \o <<Notify("StartSpinner", "Generating AI commit message...", <<>>),
                        generateCall,
                        Notify("StopSpinner", "", <<>>)>>)
       ELSE Return(Nil,
                   StoreMessage(ctx, message),
                   entered \o diffCalls
                   \o <<Notify("StartSpinner", "Generating AI commit message...", <<>>),
                        generateCall,
                        Notify("StopSpinner", "", <<>>),
                        Notify("Info", "Generated commit message: %s", <<message>>)>>)

executeGitAdd(step, ctx, outcome) ==
    Return(outcome, ctx,
           <<Handled("executeGitAdd", step, ctx),
             Notify("StartSpinner", "Staging changes...", <<>>),
             VcsCall("Add", <<>>, [err |-> outcome]),
             Notify("StopSpinner", "", <<>>)>>)

\* Variant: the Context is not consulted.
CommitMessage_AlwaysDefault(ctx) == "Automated commit"

\* The message executeGitCommit hands to Client.Commit.
CommitMessage(ctx) ==
    IF ctx.Message # "" THEN ctx.Message
    ELSE IF "commit_message" \in DOMAIN ctx.Data THEN ctx.Data["commit_message"]
    ELSE "Automated commit"

executeGitCommit(step, ctx, outcome) ==
    LET message == CommitMessage(ctx)
        committed == Commit(message, outcome)
        events == <<Handled("executeGitCommit", step, ctx),
                    Notify("StartSpinner", "Creating commit...", <<>>),
                    VcsCall("Commit", <<message>>, committed),
                    Notify("StopSpinner", "", <<>>)>>
    IN IF IsError(committed.err)
       THEN Return(committed.err, ctx, events)
       ELSE Return(Nil, ctx,
                   events \o <<Notify("Success", "Commit created: %s", <<"hash">>)>>)

executeGitPush(step, ctx, outcome) ==
    Return(outcome, ctx,
           <<Handled("executeGitPush", step, ctx),
             Notify("StartSpinner", "Pushing to remote...", <<>>),
             VcsCall("Push", <<>>, [err |-> outcome]),
             Notify("StopSpinner", "", <<>>)>>)

\* Variant: the map lookup's ok is not consulted, a missing entry reads as "".
BranchName_UncheckedLookup(step, ctx) ==
    IF ctx.Branch # "" THEN [ok |-> TRUE, name |-> ctx.Branch]
    ELSE [ok |-> TRUE,
          name |-> IF "name" \in DOMAIN step.Parameters
                   THEN step.Parameters["name"] ELSE ""]

\* Variant: the step's parameter takes precedence over the Context.
BranchName_ParameterFirst(step, ctx) ==
    IF "name" \in DOMAIN step.Parameters
    THEN [ok |-> TRUE, name |-> step.Parameters["name"]]
    ELSE IF ctx.Branch # "" THEN [ok |-> TRUE, name |-> ctx.Branch]
    ELSE [ok |-> FALSE, name |-> ""]

\* The branch name the two branch handlers resolve; ok is FALSE when
\* neither the Context nor the step's parameters name one.
BranchName(step, ctx) ==
    IF ctx.Branch # "" THEN [ok |-> TRUE, name |-> ctx.Branch]
    ELSE IF "name" \in DOMAIN step.Parameters
    THEN [ok |-> TRUE, name |-> step.Parameters["name"]]
    ELSE [ok |-> FALSE, name |-> ""]

executeCreateBranch(step, ctx, outcome) ==
    LET entered == <<Handled("executeCreateBranch", step, ctx)>>
        branchName == BranchName(step, ctx)
        events == entered \o
                  <<Notify("StartSpinner", "Creating branch: %s", <<branchName.name>>),
                    VcsCall("CreateBranch", <<branchName.name>>, [err |-> outcome]),
                    Notify("StopSpinner", "", <<>>)>>
    IN IF ~branchName.ok
       THEN Return(Errorf("branch name not specified", "", Nil), ctx, entered)
       ELSE IF IsError(outcome)
       THEN Return(outcome, ctx, events)
       ELSE Return(Nil, [ctx EXCEPT !.Branch = branchName.name], events)

\* Variant: the branch switched to is written back, as create-branch does.
executeCheckoutBranch_WritesBack(step, ctx, outcome) ==
    LET entered == <<Handled("executeCheckoutBranch", step, ctx)>>
        branchName == BranchName(step, ctx)
        events == entered \o
                  <<Notify("StartSpinner", "Switching to branch: %s", <<branchName.name>>),
                    VcsCall("CheckoutBranch", <<branchName.name>>, [err |-> outcome]),
                    Notify("StopSpinner", "", <<>>)>>
    IN IF ~branchName.ok
       THEN Return(Errorf("branch name not specified", "", Nil), ctx, entered)
       ELSE IF IsError(outcome)
       THEN Return(outcome, ctx, events)
       ELSE Return(Nil, [ctx EXCEPT !.Branch = branchName.name], events)

executeCheckoutBranch(step, ctx, outcome) ==
    LET entered == <<Handled("executeCheckoutBranch", step, ctx)>>
        branchName == BranchName(step, ctx)
    IN IF ~branchName.ok
       THEN Return(Errorf("branch name not specified", "", Nil), ctx, entered)
       ELSE Return(outcome, ctx,
                   entered \o
                   <<Notify("StartSpinner", "Switching to branch: %s", <<branchName.name>>),
                     VcsCall("CheckoutBranch", <<branchName.name>>, [err |-> outcome]),
                     Notify("StopSpinner", "", <<>>)>>)

\* Variant: the placeholder reports that it cannot do the work.
executeCreatePR_NotImplemented(step, ctx) ==
    Return(Errorf("PR creation not yet implemented", "", Nil), ctx,
           <<Handled("executeCreatePR", step, ctx)>>)

executeCreatePR(step, ctx) ==
    Return(Nil, ctx,
           <<Handled("executeCreatePR", step, ctx),
             Notify("Info", "PR creation not yet implemented", <<>>),
             Notify("Info", "This would create a pull request with the current changes", <<>>)>>)

(***************************************************************************)
(* executeStep: the dry-run short cut and the dispatch table.              *)
(***************************************************************************)
\* The answers of the environment one dispatch may consume.
Answers(stagedView, unstagedView, generated, outcome) ==
    [stagedView |-> stagedView, unstagedView |-> unstagedView,
     generated |-> generated, outcome |-> outcome]

NoAnswers ==
    Answers(RepoView(TRUE, TRUE, <<>>), RepoView(TRUE, TRUE, <<>>),
            [text |-> "", err |-> Nil], Nil)

KnownActions ==
    {"ai-commit", "git-add", "git-commit", "git-push",
     "create-branch", "checkout-branch", "create-pr"}

\* Variant: an action outside the table is passed over silently.
UnknownAction_Ignored(step, ctx) == Return(Nil, ctx, <<>>)

\* The default case of the switch.
UnknownAction(step, ctx) ==
    Return(Errorf("unknown action: %s", step.Action, Nil), ctx, <<>>)

\* The switch over step.Action.
DispatchTable(step, ctx, hasAI, env) ==
    CASE step.Action = "ai-commit" ->
            executeAICommit(step, ctx, hasAI, env.stagedView, env.unstagedView,
                            env.generated)
      [] step.Action = "git-add" -> executeGitAdd(step, ctx, env.outcome)
      [] step.Action = "git-commit" -> executeGitCommit(step, ctx, env.outcome)
      [] step.Action = "git-push" -> executeGitPush(step, ctx, env.outcome)
      [] step.Action = "create-branch" -> executeCreateBranch(step, ctx, env.outcome)
      [] step.Action = "checkout-branch" -> executeCheckoutBranch(step, ctx, env.outcome)
      [] step.Action = "create-pr" -> executeCreatePR(step, ctx)
      [] OTHER -> UnknownAction(step, ctx)

\* Variant: the handlers are told a text-generation client is at hand.
executeStep_AssumesAIClient(step, ctx, dry, hasAI, env) ==
    IF dry
    THEN Return(Nil, ctx, <<Notify("Printf", "  Would execute: %s", <<step.Action>>)>>)
    ELSE DispatchTable(step, ctx, TRUE, env)

\* Variant: the dry-run flag is not consulted.
executeStep_IgnoresDryRun(step, ctx, dry, hasAI, env) ==
    DispatchTable(step, ctx, hasAI, env)

\* Variant: a dry run looks the action up before it reports it.
executeStep_DryRunChecksAction(step, ctx, dry, hasAI, env) ==
    IF dry /\ step.Action \in KnownActions
    THEN Return(Nil, ctx, <<Notify("Printf", "  Would execute: %s", <<step.Action>>)>>)
    ELSE DispatchTable(step, ctx, hasAI, env)

executeStep(step, ctx, dry, hasAI, env) ==
    IF dry
    THEN Return(Nil, ctx, <<Notify("Printf", "  Would execute: %s", <<step.Action>>)>>)
    ELSE DispatchTable(step, ctx, hasAI, env)

(***************************************************************************)
(* Execute: the loop over the steps.                                       *)
(***************************************************************************)
\* Variant: the ordinal is taken from the 0-based loop index.
shouldSkip_ZeroBased(skips, step, i) ==
    \E k \in 1..Len(skips) :
        skips[k] = step.Name \/ skips[k] = DecimalString(i - 1)

\* The skip test of the loop body for the step at 1-based position i.
shouldSkip(skips, step, i) ==
    \E k \in 1..Len(skips) :
        skips[k] = step.Name \/ skips[k] = DecimalString(i)

\* Variant: continue_on_error is not consulted, every failure is tolerated.
Disposition_AlwaysContinue(step, err) ==
    IF IsError(err) THEN "continue" ELSE "completed"

\* Variant: continue_on_error is not consulted, every failure is fatal.
Disposition_AlwaysReturn(step, err) ==
    IF IsError(err) THEN "return" ELSE "completed"

\* Variant: a failure that is tolerated is reported like a success.
Disposition_ToleratedIsCompleted(step, err) ==
    IF IsError(err) /\ ~step.ContinueOnError THEN "return" ELSE "completed"

\* What the loop body does with the value executeStep returned:
\* "continue" with a warning, "return" the wrapped error, or "completed".
Disposition(step, err) ==
    IF IsError(err)
    THEN IF step.ContinueOnError THEN "continue" ELSE "return"
    ELSE "completed"

\* Variant: the step's error is handed back as it is.
StepError_Unwrapped(step, err) == err

StepError(step, err) == Errorf("step '%s' failed: %w", step.Name, err)

(***************************************************************************)
(* The configuration files.  initConfig reads $HOME/.ai-git.yaml unless    *)
(* --config names another file; config.Save always writes                  *)
(* $HOME/.config/ai-git/config.yaml.  A file that does not exist reads as  *)
(* a configuration without workflows.                                      *)
(***************************************************************************)
HomeConfigFile == "$HOME/.ai-git.yaml"

SavedConfigFile == "$HOME/.config/ai-git/config.yaml"

ConfigFiles == {HomeConfigFile, SavedConfigFile}

\* Values of the --config flag ("" is the flag's default).
CfgFileFlags == {"", SavedConfigFile}

\* initConfig and config.Load: cfg.Workflows.
Load(files, cfgFile) ==
    files[IF cfgFile # "" THEN cfgFile ELSE HomeConfigFile]

\* config.Save(cfg) with cfg.Workflows = workflows.
Save(files, workflows) == [files EXCEPT ![SavedConfigFile] = workflows]

\* No call of formatDiffForAI is being followed.
NoPrompt ==
    [diff |-> <<>>, maxLines |-> 0, at |-> "", text |-> <<>>, lineCount |-> 0,
     file |-> 0, line |-> 0]

\* The command line of a process: the subcommand, its <workflow-name>
\* argument and --config; n counts the processes started so far.
Invocation(cmd, name, cfgFile, n) ==
    [cmd |-> cmd, name |-> name, cfgFile |-> cfgFile, n |-> n]

Init ==
    /\ workflow \in Workflows
    /\ dryRun \in BOOLEAN
    /\ skipSteps \in SkipLists
    /\ aiClient \in BOOLEAN
    /\ context \in { WorkflowContext(f.Branch, f.Message, TRUE, EmptyData) :
                        f \in ContextFlags }
    /\ pc = "start"
    /\ idx = 0
    /\ result = Pending
    /\ trace = <<>>
    /\ store = [f \in ConfigFiles |-> IF f = HomeConfigFile THEN <<workflow>> ELSE <<>>]
    /\ command = Invocation("run", workflow.Name, "", 1)
    /\ prompt = NoPrompt

\* Variant: the data map is made anew on every call.
InitData_Always(ctx) == [ctx EXCEPT !.DataNil = FALSE, !.Data = EmptyData]

\* if e.context.Data == nil { e.context.Data = make(map[string]interface{}) }
InitData(ctx) ==
    IF ctx.DataNil
    THEN [ctx EXCEPT !.DataNil = FALSE, !.Data = EmptyData]
    ELSE ctx

\* Execute() up to the loop: header, dry-run notice, Context data.
ExecuteBegin ==
    /\ pc = "start"
    /\ trace' = trace \o At(0,
            <<Notify("Header", "Executing Workflow: %s", <<workflow.Name>>)>>
            \o (IF dryRun
                THEN <<Notify("Warning", "DRY RUN MODE - No changes will be made", <<>>)>>
                ELSE <<>>))
    /\ context' = InitData(context)
    /\ idx' = 1
    /\ pc' = "loop"
    /\ UNCHANGED <<workflow, dryRun, skipSteps, aiClient, result, store, command, prompt>>

\* Variant: the loop stops one step early.
RangeDone_StopsEarly(steps, i) == i >= Len(steps)

\* The range loop has no step left at 1-based position i.
RangeDone(steps, i) == i > Len(steps)

AtStep == pc = "loop" /\ ~RangeDone(workflow.Steps, idx)

\* A loop iteration whose step matches a skip selector.
SkipStep ==
    /\ AtStep
    /\ shouldSkip(skipSteps, workflow.Steps[idx], idx)
    /\ trace' = trace \o At(idx,
            <<Notify("Info", "Skipping step %d: %s",
                     <<DecimalString(idx), workflow.Steps[idx].Name>>)>>)
    /\ idx' = idx + 1
    /\ UNCHANGED <<workflow, dryRun, skipSteps, aiClient, context, pc, result,
                   store, command, prompt>>

\* Variant: the loop body does not wait for executeStep; it takes the
\* step for completed and the handler does its work afterwards.
RunStep_DoesNotWait(env) ==
    LET step == workflow.Steps[idx]
        returned == executeStep(step, context, dryRun, aiClient, env)
    IN /\ trace' = trace \o At(idx,
                <<Notify("Info", "Executing step %d: %s", <<DecimalString(idx), step.Name>>),
                  Dispatched(step),
                  Returned(step, Nil, context),
                  Notify("Success", "Step completed: %s", <<step.Name>>)>>
                \o returned.events)
       /\ context' = returned.context
       /\ idx' = idx + 1
       /\ UNCHANGED <<workflow, dryRun, skipSteps, aiClient, pc, result, store, command, prompt>>

\* A loop iteration that dispatches its step, given the environment's answers.
RunStep(env) ==
    LET step == workflow.Steps[idx]
        returned == executeStep(step, context, dryRun, aiClient, env)
        disposition == Disposition(step, returned.err)
        before == <<Notify("Info", "Executing step %d: %s",
                           <<DecimalString(idx), step.Name>>),
                    Dispatched(step)>>
        after == CASE disposition = "continue" ->
                        <<Notify("Warning", "Step failed but continuing: %v", <<returned.err>>)>>
                   [] disposition = "return" -> <<>>
                   [] disposition = "completed" ->
                        <<Notify("Success", "Step completed: %s", <<step.Name>>)>>
    IN /\ trace' = trace \o At(idx,
                before \o returned.events
                \o <<Returned(step, returned.err, returned.context)>> \o after)
       /\ context' = returned.context
       /\ IF disposition = "return"
          THEN /\ result' = StepError(step, returned.err)
               /\ pc' = "done"
               /\ idx' = idx
          ELSE /\ idx' = idx + 1
               /\ UNCHANGED <<pc, result>>
       /\ UNCHANGED <<workflow, dryRun, skipSteps, aiClient, store, command, prompt>>

Dispatching(action) ==
    /\ AtStep
    /\ ~shouldSkip(skipSteps, workflow.Steps[idx], idx)
    /\ workflow.Steps[idx].Action = action

StepAICommit ==
    /\ Dispatching("ai-commit")
    /\ \E stagedView \in RepoViews :
       \E unstagedView \in
            (IF IsError(GetStagedDiff(stagedView).err) THEN RepoViews ELSE {stagedView}) :
       \E generated \in GenerateOutcomes :
          RunStep(Answers(stagedView, unstagedView, generated, Nil))

StepGitAdd ==
    /\ Dispatching("git-add")
    /\ \E outcome \in LibraryOutcomes : RunStep([NoAnswers EXCEPT !.outcome = outcome])

StepGitCommit ==
    /\ Dispatching("git-commit")
    /\ \E outcome \in LibraryOutcomes : RunStep([NoAnswers EXCEPT !.outcome = outcome])

StepGitPush ==
    /\ Dispatching("git-push")
    /\ \E outcome \in LibraryOutcomes : RunStep([NoAnswers EXCEPT !.outcome = outcome])

StepCreateBranch ==
    /\ Dispatching("create-branch")
    /\ \E outcome \in LibraryOutcomes : RunStep([NoAnswers EXCEPT !.outcome = outcome])

StepCheckoutBranch ==
    /\ Dispatching("checkout-branch")
    /\ \E outcome \in LibraryOutcomes : RunStep([NoAnswers EXCEPT !.outcome = outcome])

StepCreatePR ==
    /\ Dispatching("create-pr")
    /\ RunStep(NoAnswers)

StepUnknownAction ==
    /\ AtStep
    /\ ~shouldSkip(skipSteps, workflow.Steps[idx], idx)
    /\ workflow.Steps[idx].Action \notin KnownActions
    /\ RunStep(NoAnswers)

\* The loop is over: overall success.
ExecuteFinish ==
    /\ pc = "loop"
    /\ RangeDone(workflow.Steps, idx)
    /\ trace' = trace \o At(0,
            <<Notify("Success", "Workflow '%s' completed successfully", <<workflow.Name>>)>>)
    /\ result' = Nil
    /\ pc' = "done"
    /\ UNCHANGED <<workflow, dryRun, skipSteps, aiClient, context, idx, store, command, prompt>>

Next ==
    \/ ExecuteBegin
    \/ SkipStep
    \/ StepAICommit
    \/ StepGitAdd
    \/ StepGitCommit
    \/ StepGitPush
    \/ StepCreateBranch
    \/ StepCheckoutBranch
    \/ StepCreatePR
    \/ StepUnknownAction
    \/ ExecuteFinish

Spec == Init /\ [][Next]_vars

\* Execute() runs on one goroutine and nothing in it waits for another: as
\* long as a statement of it can be executed, one is.  Every call of a
\* facade is taken to return.
FairSpec == Spec /\ WF_vars(Next)

(***************************************************************************)
(* An engine used twice.  WorkflowExecutor keeps its Context in a field    *)
(* (cmd/workflow.go:506-515) and Execute is an exported method, so a       *)
(* caller holding an executor can call it again once it has returned.      *)
(***************************************************************************)
\* The record of a call of Execute() that has returned: its result, the
\* Context it left, and the values it wrote to the fields of the Context.
Executed(err, left, written) ==
    [kind |-> "executed", op |-> "Execute", err |-> err, context |-> left,
     written |-> written]

\* The values the handlers on record stored in a field of the Context: what
\* a handler returned differs from what it found.
WrittenTo(field) ==
    { trace[r].ev.context[field] :
        r \in { r \in DOMAIN trace :
                  /\ trace[r].ev.kind = "returned"
                  /\ \E h \in DOMAIN trace :
                        /\ trace[h].ev.kind = "handler"
                        /\ trace[h].step = trace[r].step
                        /\ trace[h].ev.context[field] # trace[r].ev.context[field] } }

\* The calls of Execute() that have returned before the one on record.
EarlierCalls == { k \in DOMAIN trace : trace[k].ev.kind = "executed" }

\* Execute() is called a second time on the executor whose first call has
\* returned: the fields of the executor are what the first call left, the
\* locals of Execute are new.  The history of the first call is kept as one
\* record.
ExecuteAgain ==
    /\ pc = "done"
    /\ EarlierCalls = {}
    /\ pc' = "start"
    /\ idx' = 0
    /\ result' = Pending
    /\ trace' = At(0, <<Executed(result, context,
                                 [Branch |-> WrittenTo("Branch"),
                                  Message |-> WrittenTo("Message"),
                                  Data |-> WrittenTo("Data")])>>)
    /\ UNCHANGED <<workflow, dryRun, skipSteps, aiClient, context, store, command, prompt>>

ReuseNext ==
    \/ ExecuteBegin
    \/ SkipStep
    \/ StepAICommit
    \/ StepGitCommit
    \/ StepCreateBranch
    \/ StepCheckoutBranch
    \/ ExecuteFinish
    \/ ExecuteAgain

\* The engines that are used twice: built with a text-generation client,
\* for a definition over the steps that write the Context or read it.
ReuseSteps ==
    { step \in StepUniverse :
         step.Name \in {"Generate commit message", "Commit changes", "New branch", "Switch"} }

ReuseWorkflows ==
    { WorkflowConfig("custom", steps, TRUE) :
         steps \in UNION { [1..n -> ReuseSteps] : n \in 0..MaxSteps } }

ReuseInit ==
    /\ workflow \in ReuseWorkflows
    /\ dryRun \in BOOLEAN
    /\ skipSteps \in { <<>>, <<"2">> }
    /\ aiClient = TRUE
    /\ context \in { WorkflowContext(f.Branch, f.Message, TRUE, EmptyData) :
                        f \in ContextFlags }
    /\ pc = "start"
    /\ idx = 0
    /\ result = Pending
    /\ trace = <<>>
    /\ store = [f \in ConfigFiles |-> IF f = HomeConfigFile THEN <<workflow>> ELSE <<>>]
    /\ command = Invocation("run", workflow.Name, "", 1)
    /\ prompt = NoPrompt

ReuseSpec == ReuseInit /\ [][ReuseNext]_vars

(***************************************************************************)
(* The workflow commands (cmd/workflow.go).  Every command is one process: *)
(* it loads the configuration, does its work and returns; the run command  *)
(* hands over to Execute().                                                *)
(***************************************************************************)
\* The workflows of the file "ai-git init" writes (defaultConfig: both
\* disabled), and a workflow of the user's own.
InitialWorkflows ==
    [ f \in ConfigFiles |->
        IF f = SavedConfigFile
        THEN << WorkflowConfig("auto-commit-push",
                  << WorkflowStep("Generate commit message", "ai-commit", NoParameters, FALSE),
                     WorkflowStep("Stage files", "git-add", NoParameters, FALSE),
                     WorkflowStep("Commit changes", "git-commit", NoParameters, FALSE) >>,
                  FALSE),
                WorkflowConfig("feature-branch-workflow",
                  << WorkflowStep("Generate commit message", "ai-commit", NoParameters, FALSE),
                     WorkflowStep("Commit changes", "git-commit", NoParameters, FALSE),
                     WorkflowStep("Push to origin", "git-push", NoParameters, FALSE),
                     WorkflowStep("Create pull request", "create-pr", NoParameters, FALSE) >>,
                  FALSE) >>
        ELSE << WorkflowConfig("release",
                  << WorkflowStep("New branch", "create-branch", NameParameter("dev"), FALSE),
                     WorkflowStep("Switch", "checkout-branch", NameParameter("dev"), TRUE),
                     WorkflowStep("Deploy", "deploy", NoParameters, FALSE) >>,
                  TRUE) >> ]

\* Values of the <workflow-name> argument.
CommandNames == {"auto-commit-push", "feature-branch-workflow", "release", "nightly"}

\* Values of the flags of the run command.
RunFlags ==
    { [DryRun |-> FALSE, Skip |-> <<>>, Branch |-> "", Message |-> ""],
      [DryRun |-> TRUE, Skip |-> <<>>, Branch |-> "", Message |-> ""],
      [DryRun |-> FALSE, Skip |-> <<"2">>, Branch |-> "main", Message |-> "fix: y"] }

\* What the user types at the "Step name" and "Step action" prompts of the
\* create command, before the empty name that ends the entry.
StepEntry(name, action) == [Name |-> name, Action |-> action]

StepEntries ==
    UNION { [1..n -> { StepEntry("Stage files", "git-add"), StepEntry("Deploy", "deploy") }] :
              n \in 0..MaxEntered }

\* Variant: no workflow is ever found to bear the name.
FindWorkflow_NeverFinds(workflows, name) == 0

\* The index of the first workflow of that name, 0 when there is none.
FindWorkflow(workflows, name) ==
    LET hits == { i \in DOMAIN workflows : workflows[i].Name = name }
    IN IF hits = {} THEN 0 ELSE CHOOSE i \in hits : \A j \in hits : i <= j

\* The engine's variables in a process that has built no executor.
NoWorkflow == WorkflowConfig("", <<>>, FALSE)

NoContext == WorkflowContext("", "", TRUE, EmptyData)

\* A process may be started: none is running, and the bound allows it.
CommandReady == pc = "idle" /\ command.n < MaxCommands

\* The process returns err without having built an executor, leaving the
\* configuration files as files.
Exit(cmd, err, events, files) ==
    /\ command' = cmd
    /\ prompt' = prompt
    /\ store' = files
    /\ workflow' = NoWorkflow
    /\ dryRun' = FALSE
    /\ skipSteps' = <<>>
    /\ aiClient' = FALSE
    /\ context' = NoContext
    /\ idx' = 0
    /\ pc' = "done"
    /\ result' = err
    /\ trace' = At(0, events)

\* Variant: the enabled flag is not consulted.
Disabled_NotConsulted(target) == FALSE

\* !targetWorkflow.Enabled
Disabled(target) == ~target.Enabled

\* The executor runWorkflowRun builds for the workflow it found.
BuildExecutor(cmd, target, flags, hasAI) ==
    /\ command' = cmd
    /\ prompt' = prompt
    /\ store' = store
    /\ workflow' = target
    /\ dryRun' = flags.DryRun
    /\ skipSteps' = flags.Skip
    /\ aiClient' = hasAI
    /\ context' = WorkflowContext(flags.Branch, flags.Message, TRUE, EmptyData)
    /\ idx' = 0
    /\ pc' = "start"
    /\ result' = Pending
    /\ trace' = At(0,
          IF hasAI THEN <<>>
          ELSE <<Notify("Warning", "Failed to initialize AI client: %v",
                        <<LibraryError("ai.NewClient")>>)>>)

\* runWorkflowRun up to the call of executor.Execute().
RunWorkflowRun ==
    /\ CommandReady
    /\ \E name \in CommandNames, cfgFile \in CfgFileFlags :
          LET cmd == Invocation("run", name, cfgFile, command.n + 1)
              cfg == Load(store, cfgFile)
              i == FindWorkflow(cfg, name)
          IN IF i = 0
             THEN Exit(cmd, Errorf("workflow not found: %s", name, Nil),
                       <<Notify("Error", "Workflow '%s' not found", <<name>>)>>, store)
             ELSE IF Disabled(cfg[i])
             THEN Exit(cmd, Errorf("workflow disabled: %s", name, Nil),
                       <<Notify("Error", "Workflow '%s' is disabled", <<name>>)>>, store)
             ELSE \E gitClient \in LibraryOutcomes :
                     IF IsError(gitClient)
                     THEN Exit(cmd, gitClient,
                               <<Notify("Error", "Failed to initialize Git client: %v",
                                        <<gitClient>>)>>,
                               store)
                     ELSE \E flags \in RunFlags, hasAI \in BOOLEAN :
                             BuildExecutor(cmd, cfg[i], flags, hasAI)

\* What the user answers to the calls of ui.Input of the create command:
\* the description, the trigger event, a name and an action for each step,
\* and the empty name that ends the entry.
RECURSIVE StepAnswers(_)
StepAnswers(entered) ==
    IF entered = <<>>
    THEN <<[label |-> "Step name", value |-> ""]>>
    ELSE <<[label |-> "Step name", value |-> Head(entered).Name],
           [label |-> "Step action", value |-> Head(entered).Action]>>
         \o StepAnswers(Tail(entered))

InputScript(entered) ==
    <<[label |-> "Description", value |-> ""],
      [label |-> "Trigger event (manual, pre-commit, post-commit)", value |-> "manual"]>>
    \o StepAnswers(entered)

\* The records of the calls of ui.Input from call c on, with the notices
\* sent between them; the call failAt returns an error and ends the command.
RECURSIVE CreatePrompts(_, _, _)
CreatePrompts(script, c, failAt) ==
    IF c > Len(script) THEN <<>>
    ELSE IF c = failAt
    THEN <<UiInput(script[c].label, "", LibraryError("ui.Input"))>>
    ELSE <<UiInput(script[c].label, script[c].value, Nil)>>
         \o (IF c = 2
             THEN <<Notify("Info",
                      "Add workflow steps (press Enter with empty name to finish):", <<>>)>>
             ELSE IF c >= 4 /\ c % 2 = 0
             THEN <<Notify("Success", "Added step: %s", <<script[c - 1].value>>)>>
             ELSE <<>>)
         \o CreatePrompts(script, c + 1, failAt)

\* The steps the create command has appended after `calls` calls of
\* ui.Input have returned: two for the description and the trigger, then
\* two for each step.
AddedSteps(entered, calls) ==
    LET n == IF calls < 4 THEN 0 ELSE (calls - 2) \div 2
        m == IF n < Len(entered) THEN n ELSE Len(entered)
    IN [k \in 1..m |-> WorkflowStep(entered[k].Name, entered[k].Action, NoParameters, FALSE)]

\* Variant: the step list is not looked at.
NoSteps_NotChecked(newWorkflow) == FALSE

\* len(newWorkflow.Steps) == 0
NoSteps(newWorkflow) == Len(newWorkflow.Steps) = 0

\* runWorkflowCreate once the name is known to be free.  failAt is the
\* call of ui.Input that returns an error (0: none does).
CreateWorkflow(cmd, cfg, entered, failAt, saved) ==
    LET name == cmd.name
        failed == failAt >= 1
        steps == AddedSteps(entered, IF failed THEN failAt - 1 ELSE 2 * Len(entered) + 3)
        newWorkflow == WorkflowConfig(name, steps, TRUE)
        prompts == <<Notify("Header", "Creating Workflow: %s", <<name>>)>>
                   \o CreatePrompts(InputScript(entered), 1, failAt)
        saving == <<SaveCall(Append(cfg, newWorkflow), saved)>>
    IN IF failed
       THEN Exit(cmd, LibraryError("ui.Input"), prompts, store)
       ELSE IF NoSteps(newWorkflow)
       THEN Exit(cmd, Errorf("no steps defined", "", Nil),
                 prompts \o <<Notify("Error", "Workflow must have at least one step", <<>>)>>,
                 store)
       ELSE IF IsError(saved)
       THEN Exit(cmd, saved,
                 prompts \o saving
                 \o <<Notify("Error", "Failed to save workflow: %v", <<saved>>)>>,
                 store)
       ELSE Exit(cmd, Nil,
                 prompts \o saving
                 \o <<Notify("Success", "Workflow '%s' created successfully", <<name>>),
                      Notify("Info", "Use 'ai-git workflow run %s' to execute it", <<name>>)>>,
                 Save(store, Append(cfg, newWorkflow)))

\* The calls of ui.Input that may fail once the steps `entered` are in: the
\* prompt for the last step's action (for the trigger, with no step
\* entered) or the one for the next step's name, and, with no step entered,
\* the prompt for the description.
FailurePoints(entered) ==
    {2 * Len(entered) + 2, 2 * Len(entered) + 3}
    \cup (IF Len(entered) = 0 THEN {1} ELSE {})

\* runWorkflowCreate.
RunWorkflowCreate ==
    /\ CommandReady
    /\ \E name \in CommandNames, cfgFile \in CfgFileFlags :
          LET cmd == Invocation("create", name, cfgFile, command.n + 1)
              cfg == Load(store, cfgFile)
          IN IF FindWorkflow(cfg, name) # 0
             THEN Exit(cmd, Errorf("workflow already exists: %s", name, Nil),
                       <<Notify("Error", "Workflow '%s' already exists", <<name>>)>>, store)
             ELSE \E entered \in StepEntries :
                     \/ \E failAt \in FailurePoints(entered) :
                           CreateWorkflow(cmd, cfg, entered, failAt, Nil)
                     \/ \E saved \in LibraryOutcomes :
                           CreateWorkflow(cmd, cfg, entered, 0, saved)

\* The workflows that do not bear the name, in order.
WithoutWorkflow(workflows, name) == SelectSeq(workflows, LAMBDA w : w.Name # name)

\* Answers to ui.Confirm.
Confirmations == {"yes", "no", "error"}

\* runWorkflowDelete.
RunWorkflowDelete ==
    /\ CommandReady
    /\ \E name \in CommandNames, cfgFile \in CfgFileFlags :
          LET cmd == Invocation("delete", name, cfgFile, command.n + 1)
              cfg == Load(store, cfgFile)
              newWorkflows == WithoutWorkflow(cfg, name)
          IN IF FindWorkflow(cfg, name) = 0
             THEN Exit(cmd, Errorf("workflow not found: %s", name, Nil),
                       <<Notify("Error", "Workflow '%s' not found", <<name>>)>>, store)
             ELSE \E confirmed \in Confirmations :
                     IF confirmed = "error"
                     THEN Exit(cmd, LibraryError("ui.Confirm"),
                               <<UiConfirm(FALSE, LibraryError("ui.Confirm"))>>, store)
                     ELSE IF confirmed = "no"
                     THEN Exit(cmd, Nil,
                               <<UiConfirm(FALSE, Nil),
                                 Notify("Info", "Deletion cancelled", <<>>)>>,
                               store)
                     ELSE \E saved \in LibraryOutcomes :
                             IF IsError(saved)
                             THEN Exit(cmd, saved,
                                       <<UiConfirm(TRUE, Nil),
                                         SaveCall(newWorkflows, saved),
                                         Notify("Error", "Failed to save configuration: %v",
                                                <<saved>>)>>,
                                       store)
                             ELSE Exit(cmd, Nil,
                                       <<UiConfirm(TRUE, Nil),
                                         SaveCall(newWorkflows, saved),
                                         Notify("Success", "Workflow '%s' deleted", <<name>>)>>,
                                       Save(store, newWorkflows))

\* Variant: the flag of the workflow is turned over.
SetEnabled_Toggles(workflows, i, enabled) ==
    [workflows EXCEPT ![i].Enabled = ~workflows[i].Enabled]

\* cfg.Workflows[i].Enabled = enabled
SetEnabled(workflows, i, enabled) == [workflows EXCEPT ![i].Enabled = enabled]

\* setWorkflowStatus, called by runWorkflowEnable and runWorkflowDisable.
setWorkflowStatus(subcommand, enabled) ==
    /\ CommandReady
    /\ \E name \in CommandNames, cfgFile \in CfgFileFlags :
          LET cmd == Invocation(subcommand, name, cfgFile, command.n + 1)
              cfg == Load(store, cfgFile)
              i == FindWorkflow(cfg, name)
          IN IF i = 0
             THEN Exit(cmd, Errorf("workflow not found: %s", name, Nil),
                       <<Notify("Error", "Workflow '%s' not found", <<name>>)>>, store)
             ELSE \E saved \in LibraryOutcomes :
                     LET updated == SetEnabled(cfg, i, enabled)
                     IN IF IsError(saved)
                        THEN Exit(cmd, saved,
                                  <<SaveCall(updated, saved),
                                    Notify("Error", "Failed to save configuration: %v",
                                           <<saved>>)>>,
                                  store)
                        ELSE Exit(cmd, Nil,
                                  <<SaveCall(updated, saved),
                                    Notify("Success", "Workflow '%s' %s",
                                           <<name, IF enabled THEN "enabled" ELSE "disabled">>)>>,
                                  Save(store, updated))

RunWorkflowEnable == setWorkflowStatus("enable", TRUE)

RunWorkflowDisable == setWorkflowStatus("disable", FALSE)

\* The command has returned and its process ends: nothing it held in memory
\* is left, the configuration files stay.
ProcessExit ==
    /\ pc = "done"
    /\ pc' = "idle"
    /\ command' = Invocation("", "", "", command.n)
    /\ prompt' = prompt
    /\ workflow' = NoWorkflow
    /\ dryRun' = FALSE
    /\ skipSteps' = <<>>
    /\ aiClient' = FALSE
    /\ context' = NoContext
    /\ idx' = 0
    /\ result' = Pending
    /\ trace' = <<>>
    /\ store' = store

CliInit ==
    /\ store = InitialWorkflows
    /\ command = Invocation("", "", "", 0)
    /\ prompt = NoPrompt
    /\ workflow = NoWorkflow
    /\ dryRun = FALSE
    /\ skipSteps = <<>>
    /\ aiClient = FALSE
    /\ context = NoContext
    /\ pc = "idle"
    /\ idx = 0
    /\ result = Pending
    /\ trace = <<>>

CliNext ==
    \/ RunWorkflowRun
    \/ RunWorkflowCreate
    \/ RunWorkflowDelete
    \/ RunWorkflowEnable
    \/ RunWorkflowDisable
    \/ ExecuteBegin
    \/ SkipStep
    \/ StepAICommit
    \/ StepGitAdd
    \/ StepGitCommit
    \/ StepGitPush
    \/ StepCreateBranch
    \/ StepCheckoutBranch
    \/ StepCreatePR
    \/ StepUnknownAction
    \/ ExecuteFinish
    \/ ProcessExit

CliSpec == CliInit /\ [][CliNext]_vars

(***************************************************************************)
(* formatDiffForAI applied to the diffs and limits of a bounded set.       *)
(***************************************************************************)
\* Content of n lines, short ones but for a line of more than
\* MaxLineLength bytes at position long (none if long is 0).
Lines(n, long) == [k \in 1..n |-> IF k = long THEN MaxLineLength + 1 ELSE MaxLineLength]

\* Contents tried: none, few lines one of which is long, as many lines as
\* the per-file limit lets through, and more.
Contents ==
    { EmptyContent, Lines(3, 2), Lines(FileLineLimit + 2, 0), Lines(MaxContentLines, 0) }

ChangedFiles ==
    { ChangedFile("x.go", Modified, 0, 0, content) : content \in Contents }
    \cup { ChangedFile("y.go", Modified, 1, 0, Lines(3, 2)) }

Diffs == UNION { [1..n -> ChangedFiles] : n \in 0..MaxFiles }

\* Values of git.max_diff_lines: none, few, around the per-file limit, and
\* the default.
MaxLinesValues ==
    {0, 1, 3, FileLineLimit + 2, FileLineLimit + 3, DefaultMaxDiffLines}

FormatInit ==
    /\ prompt \in { [NoPrompt EXCEPT !.diff = diff, !.maxLines = maxLines, !.at = "call"] :
                        diff \in Diffs, maxLines \in MaxLinesValues }
    /\ store = [f \in ConfigFiles |-> <<>>]
    /\ command = Invocation("", "", "", 0)
    /\ workflow = NoWorkflow
    /\ dryRun = FALSE
    /\ skipSteps = <<>>
    /\ aiClient = TRUE
    /\ context = NoContext
    /\ pc = "idle"
    /\ idx = 0
    /\ result = Pending
    /\ trace = <<>>

\* A step of formatDiffForAI leaves everything but the call alone.
Formatting(next) ==
    /\ prompt' = next
    /\ UNCHANGED <<workflow, dryRun, skipSteps, aiClient, context, pc, idx, result,
                   trace, store, command>>

\* The summary line; lineCount := 0.
FormatBegin ==
    /\ prompt.at = "call"
    /\ Formatting([prompt EXCEPT !.text = <<Summary(prompt.diff)>>,
                                 !.lineCount = 0, !.file = 1, !.at = "files"])

\* The outer loop finds the limit reached: the marker, and break.
FormatFilesTruncated ==
    /\ prompt.at = "files"
    /\ prompt.file <= Len(prompt.diff)
    /\ LimitReached(prompt.lineCount, prompt.maxLines)
    /\ Formatting([prompt EXCEPT !.text = @ \o <<FilesTruncated(Len(prompt.diff))>>,
                                 !.at = "return"])

\* The outer loop takes the next file: its header, and its content if any.
FormatFile ==
    /\ prompt.at = "files"
    /\ prompt.file <= Len(prompt.diff)
    /\ ~LimitReached(prompt.lineCount, prompt.maxLines)
    /\ LET f == prompt.file
           file == prompt.diff[f]
           header == <<FileHeader(f, file)>> \o ChangesLine(f, file)
       IN IF file.Content # EmptyContent
          THEN Formatting([prompt EXCEPT !.text = @ \o header,
                                         !.line = 1, !.at = "lines"])
          ELSE Formatting([prompt EXCEPT !.text = @ \o header \o <<EndOfFile(f)>>,
                                         !.file = f + 1])

\* The inner loop finds the limit reached: the marker, and break.
FormatLinesTruncated ==
    /\ prompt.at = "lines"
    /\ prompt.line <= Len(prompt.diff[prompt.file].Content)
    /\ LimitReached(prompt.lineCount, prompt.maxLines)
    /\ Formatting([prompt EXCEPT
            !.text = @ \o <<Truncated(prompt.file), EndOfFile(prompt.file)>>,
            !.file = @ + 1, !.line = 0, !.at = "files"])

\* The inner loop writes the next line; past the per-file limit, break.
FormatLine ==
    /\ prompt.at = "lines"
    /\ prompt.line <= Len(prompt.diff[prompt.file].Content)
    /\ ~LimitReached(prompt.lineCount, prompt.maxLines)
    /\ LET f == prompt.file
           i == prompt.line
           written == WrittenLine(f, i, prompt.diff[f].Content[i])
       IN IF PastFileLimit(i)
          THEN Formatting([prompt EXCEPT
                  !.text = @ \o <<written, FileTruncated(f), EndOfFile(f)>>,
                  !.lineCount = @ + 1,
                  !.file = f + 1, !.line = 0, !.at = "files"])
          ELSE Formatting([prompt EXCEPT
                  !.text = @ \o <<written>>,
                  !.lineCount = @ + 1,
                  !.line = i + 1])

\* The inner loop is through with the lines of the file.
FormatEndOfLines ==
    /\ prompt.at = "lines"
    /\ prompt.line > Len(prompt.diff[prompt.file].Content)
    /\ Formatting([prompt EXCEPT !.text = @ \o <<EndOfFile(prompt.file)>>,
                                 !.file = @ + 1, !.line = 0, !.at = "files"])

\* The outer loop is through with the files: return result.String().
FormatReturn ==
    /\ prompt.at = "files"
    /\ prompt.file > Len(prompt.diff)
    /\ Formatting([prompt EXCEPT !.at = "return"])

FormatNext ==
    \/ FormatBegin
    \/ FormatFilesTruncated
    \/ FormatFile
    \/ FormatLinesTruncated
    \/ FormatLine
    \/ FormatEndOfLines
    \/ FormatReturn

FormatSpec == FormatInit /\ [][FormatNext]_vars

(***************************************************************************)
(* Reading the history.                                                    *)
(***************************************************************************)
NumSteps == Len(workflow.Steps)

IsKind(k, kind) == trace[k].ev.kind = kind

IsNotice(k, level, format) ==
    /\ trace[k].ev.kind = "ui"
    /\ trace[k].ev.op = level
    /\ trace[k].ev.format = format

IsVcs(k, op) == trace[k].ev.kind = "vcs" /\ trace[k].ev.op = op

IsFacadeCall(k) == trace[k].ev.kind \in {"vcs", "ai"}

IsHandler(k, handler) == trace[k].ev.kind = "handler" /\ trace[k].ev.op = handler

\* The positions of the steps executeStep was invoked for, in order.
DispatchedSteps ==
    LET d == SelectSeq(trace, LAMBDA r : r.ev.kind = "dispatch")
    IN [k \in 1..Len(d) |-> d[k].step]

\* The decimal strings of the ordinals 1..9, written out.
Ordinal == <<"1", "2", "3", "4", "5", "6", "7", "8", "9">>

\* The skip-selector list holds the name or the ordinal of the step at i.
Selected(i) ==
    \E k \in 1..Len(skipSteps) :
        skipSteps[k] = workflow.Steps[i].Name \/ skipSteps[k] = Ordinal[i]

\* The number of steps the loop has dealt with.
Examined ==
    IF pc = "start" THEN 0
    ELSE IF pc = "done" /\ IsError(result) THEN idx
    ELSE idx - 1

UnselectedUpTo(n) == SelectSeq([i \in 1..n |-> i], LAMBDA i : ~Selected(i))

(***************************************************************************)
(* C1                                                                      *)
(***************************************************************************)
\* C1: with an empty skip list and dry-run off, a run of Execute() that
\* returns nil has invoked executeStep exactly once for each of the N
\* steps, in declared order, each time for the action of that step.
C1_DispatchesEveryStepInOrder ==
    (pc = "done" /\ result = Nil /\ ~dryRun /\ skipSteps = <<>>) =>
        /\ DispatchedSteps = [i \in 1..NumSteps |-> i]
        /\ LET d == SelectSeq(trace, LAMBDA r : r.ev.kind = "dispatch")
           IN \A k \in 1..Len(d) :
                 /\ d[k].ev.op = workflow.Steps[k].Action
                 /\ d[k].ev.name = workflow.Steps[k].Name

\* A successful run of a definition of at least two steps, one of which
\* failed and was tolerated.
C1_Witness ==
    /\ pc = "done" /\ result = Nil /\ ~dryRun /\ skipSteps = <<>>
    /\ NumSteps >= 2
    /\ \E k \in DOMAIN trace : IsKind(k, "returned") /\ IsError(trace[k].ev.err)

(***************************************************************************)
(* C2                                                                      *)
(***************************************************************************)
\* executeStep returned an error for a step with continueOnError = false.
FatalAt(k) ==
    /\ IsKind(k, "returned")
    /\ IsError(trace[k].ev.err)
    /\ ~workflow.Steps[trace[k].step].ContinueOnError

\* C2: once a dispatched step with continueOnError = false has failed,
\* nothing follows it (no dispatch, no facade call, no notification),
\* Execute() has returned, and the error it returned wraps the step's
\* failure and names the step.
C2_FatalFailureStopsRun ==
    \A k \in DOMAIN trace :
        FatalAt(k) =>
            /\ k = Len(trace)
            /\ pc = "done"
            /\ idx = trace[k].step
            /\ IsError(result)
            /\ result.format = "step '%s' failed: %w"
            /\ result.arg = workflow.Steps[trace[k].step].Name
            /\ result.cause = trace[k].ev.err

\* A real run aborted by a step that is not the last one.
C2_Witness ==
    /\ ~dryRun
    /\ \E k \in DOMAIN trace : FatalAt(k) /\ trace[k].step < NumSteps

(***************************************************************************)
(* C3                                                                      *)
(***************************************************************************)
\* executeStep returned an error for a step with continueOnError = true.
ToleratedAt(k) ==
    /\ IsKind(k, "returned")
    /\ IsError(trace[k].ev.err)
    /\ workflow.Steps[trace[k].step].ContinueOnError

\* C3: when a dispatched step with continueOnError = true fails, a warning
\* carrying the failure is the next thing reported for that step, the loop
\* has moved past the step, the next step in declared order is examined
\* (skipped or announced) like any other, and a run that ends at that step
\* returns nil: an error Execute() returns always comes from a later step.
C3_ToleratedFailureContinues ==
    \A k \in DOMAIN trace :
        ToleratedAt(k) =>
            LET i == trace[k].step
            IN /\ k < Len(trace)
               /\ trace[k + 1].step = i
               /\ IsNotice(k + 1, "Warning", "Step failed but continuing: %v")
               /\ trace[k + 1].ev.args = <<trace[k].ev.err>>
               /\ idx > i
               /\ (i < NumSteps /\ (idx > i + 1 \/ pc = "done")) =>
                     \E m \in (k + 2)..Len(trace) :
                        /\ trace[m].step = i + 1
                        /\ \/ IsNotice(m, "Info", "Skipping step %d: %s")
                           \/ IsNotice(m, "Info", "Executing step %d: %s")
               /\ (i = NumSteps /\ pc = "done") => result = Nil

\* A run that returned nil although a step before the last one failed.
C3_Witness ==
    /\ pc = "done" /\ result = Nil
    /\ \E k \in DOMAIN trace : ToleratedAt(k) /\ trace[k].step < NumSteps

(***************************************************************************)
(* C4                                                                      *)
(***************************************************************************)
\* Everything on record for a selected step is its "Skipping" notice, and
\* the steps dispatched so far are the unselected ones among the steps
\* examined, in declared order.
C4_SkippedStepLeavesNoRecord ==
    /\ \A k \in DOMAIN trace :
          (trace[k].step >= 1 /\ Selected(trace[k].step)) =>
              IsNotice(k, "Info", "Skipping step %d: %s")
    /\ DispatchedSteps = UnselectedUpTo(Examined)

\* The loop iteration that looks at a selected step leaves the Context alone.
C4_SkipKeepsContext ==
    (pc = "loop" /\ idx <= NumSteps /\ Selected(idx)) => context' = context

\* C4: a step whose name or 1-based ordinal (as a decimal string) is in the
\* skip list never has its handler invoked, has no dispatch, VCS call or
\* text-generation call on record and leaves the Context unchanged, while
\* the steps that match no selector are dispatched in declared order.
C4_SkipSelectors ==
    []C4_SkippedStepLeavesNoRecord /\ [][C4_SkipKeepsContext]_vars

\* A real run of three or more steps that skipped step 2 by its ordinal
\* (its name is not a selector) and dispatched the steps around it.
C4_Witness ==
    /\ ~dryRun /\ pc = "done" /\ NumSteps >= 3
    /\ \E k \in 1..Len(skipSteps) : skipSteps[k] = "2"
    /\ \A k \in 1..Len(skipSteps) : skipSteps[k] # workflow.Steps[2].Name
    /\ \E m \in DOMAIN trace :
          trace[m].step = 2 /\ IsNotice(m, "Info", "Skipping step %d: %s")
    /\ \E m \in DOMAIN trace : trace[m].step = 1 /\ IsKind(m, "dispatch")
    /\ \E m \in DOMAIN trace : trace[m].step = 3 /\ IsKind(m, "dispatch")

(***************************************************************************)
(* C5                                                                      *)
(***************************************************************************)
\* The "Would execute" notices on record for the step at position i.
WouldExecuteNotices(i) ==
    { k \in DOMAIN trace :
        trace[k].step = i /\ IsNotice(k, "Printf", "  Would execute: %s") }

\* C5: with dry-run on, no call of the VCS facade or of the text-generation
\* facade is ever made, and each step the loop has dealt with has exactly
\* one "Would execute: <its action>" notice if it is not skipped and none
\* if it is skipped.
C5_DryRunMakesNoCalls ==
    dryRun =>
        /\ \A k \in DOMAIN trace : ~IsFacadeCall(k)
        /\ \A i \in 1..NumSteps :
              /\ Cardinality(WouldExecuteNotices(i)) =
                    (IF i <= Examined /\ ~Selected(i) THEN 1 ELSE 0)
              /\ \A k \in WouldExecuteNotices(i) :
                    trace[k].ev.args = <<workflow.Steps[i].Action>>

\* A finished dry run with a skipped step and an unskipped ai-commit step.
C5_Witness ==
    /\ dryRun /\ pc = "done" /\ NumSteps >= 2
    /\ \E i \in 1..NumSteps : Selected(i)
    /\ \E i \in 1..NumSteps :
          /\ ~Selected(i)
          /\ workflow.Steps[i].Action = "ai-commit"
          /\ Cardinality(WouldExecuteNotices(i)) = 1

(***************************************************************************)
(* C6                                                                      *)
(***************************************************************************)
\* The actions of the dispatch table, as the specification lists them.
TableActions ==
    {"ai-commit", "git-add", "git-commit", "git-push",
     "create-branch", "checkout-branch", "create-pr"}

\* executeStep returned, at record k, a failure that names the action.
FailsNamingAction(k) ==
    /\ IsError(trace[k].ev.err)
    /\ trace[k].ev.err.format = "unknown action: %s"
    /\ trace[k].ev.err.arg = trace[k].ev.op

\* C6 as stated: in every run, dispatching a step whose action is outside
\* the table yields a failure that names the action.
C6_Original ==
    \A k \in DOMAIN trace :
        (IsKind(k, "returned") /\ trace[k].ev.op \notin TableActions) =>
            FailsNamingAction(k)

\* C6 as amended: with dry-run off, dispatching a step whose action is
\* outside the table yields a failure that names the action.
C6_UnknownActionFails ==
    ~dryRun =>
        \A k \in DOMAIN trace :
            (IsKind(k, "returned") /\ trace[k].ev.op \notin TableActions) =>
                FailsNamingAction(k)

\* A real run that dispatched a step with the action "deploy".
C6_Witness ==
    /\ ~dryRun
    /\ \E k \in DOMAIN trace :
          IsKind(k, "returned") /\ trace[k].ev.op = "deploy" /\ FailsNamingAction(k)

(***************************************************************************)
(* C7                                                                      *)
(***************************************************************************)
\* C7: the message a git-commit step hands to the VCS commit operation is
\* Context.message if set, otherwise Context.data["commit_message"] if set,
\* otherwise "Automated commit"; and when Context.message is empty the
\* message handed over is never empty.
C7_CommitMessageResolution ==
    \A k \in DOMAIN trace :
        IsHandler(k, "executeGitCommit") =>
            /\ k + 2 <= Len(trace)
            /\ IsVcs(k + 2, "Commit")
            /\ LET ctx == trace[k].ev.context
                   message == trace[k + 2].ev.args[1]
               IN /\ message =
                        (IF ctx.Message # "" THEN ctx.Message
                         ELSE IF "commit_message" \in DOMAIN ctx.Data
                         THEN ctx.Data["commit_message"]
                         ELSE "Automated commit")
                  /\ ctx.Message = "" => message # ""

(***************************************************************************)
(* C8                                                                      *)
(***************************************************************************)
\* The repository has neither staged nor unstaged changes: both diffs can
\* be retrieved and both contain zero files.
CleanView(view) ==
    /\ view.headOk
    /\ view.statusOk
    /\ \A j \in DOMAIN view.status :
          /\ view.status[j].Staging = Unmodified
          /\ view.status[j].Worktree = Unmodified

\* C8: an ai-commit handler that has a text-generation facade starts by
\* fetching the staged diff; when the repository has no staged and no
\* unstaged change, it warns "No changes to commit", returns success and
\* no call of the text-generation facade is on record for the step.
C8_NoChangesNoGeneration ==
    /\ \A k \in DOMAIN trace :
          (IsHandler(k, "executeAICommit") /\ aiClient) =>
              (k + 1 <= Len(trace) /\ IsVcs(k + 1, "GetStagedDiff"))
    /\ \A k \in DOMAIN trace :
          (IsVcs(k, "GetStagedDiff") /\ CleanView(trace[k].ev.view)) =>
              /\ aiClient
              /\ k + 2 <= Len(trace)
              /\ IsNotice(k + 1, "Warning", "No changes to commit")
              /\ IsKind(k + 2, "returned")
              /\ trace[k + 2].ev.err = Nil
              /\ \A m \in DOMAIN trace :
                    trace[m].step = trace[k].step => ~IsKind(m, "ai")

\* An ai-commit step that found a clean repository and returned success.
C8_Witness ==
    /\ aiClient
    /\ \E k \in DOMAIN trace :
          /\ IsVcs(k, "GetStagedDiff") /\ CleanView(trace[k].ev.view)
          /\ k + 2 <= Len(trace)
          /\ IsKind(k + 2, "returned") /\ trace[k + 2].ev.err = Nil

(***************************************************************************)
(* C9                                                                      *)
(***************************************************************************)
\* A create-branch handler entered with an empty Context.Branch for a step
\* whose parameters have no "name" entry.
UnnamedCreateBranchAt(k) ==
    /\ IsHandler(k, "executeCreateBranch")
    /\ trace[k].ev.context.Branch = ""
    /\ "name" \notin DOMAIN workflow.Steps[trace[k].step].Parameters

ScenarioA ==
    /\ NumSteps = 3
    /\ workflow.Steps[1].Action = "ai-commit"
    /\ workflow.Steps[2].Action = "git-add"
    /\ workflow.Steps[3].Action = "git-commit"
    /\ ~dryRun
    /\ skipSteps = <<>>

\* ... no caller-supplied message, one staged file, and a backend that
\* returned "feat: add x".
ScenarioAGenerated ==
    \E k \in DOMAIN trace :
        /\ IsHandler(k, "executeAICommit")
        /\ trace[k].step = 1
        /\ trace[k].ev.context.Message = ""
        /\ k + 1 <= Len(trace)
        /\ IsVcs(k + 1, "GetStagedDiff")
        /\ ~IsError(trace[k + 1].ev.res.err)
        /\ Len(trace[k + 1].ev.res.Files) = 1
        /\ \E m \in DOMAIN trace :
              /\ IsKind(m, "ai")
              /\ trace[m].step = 1
              /\ ~IsError(trace[m].ev.res.err)
              /\ trace[m].ev.res.text = "feat: add x"

CommitCalls == { k \in DOMAIN trace : IsVcs(k, "Commit") }

VcsFailures ==
    { k \in DOMAIN trace : IsKind(k, "vcs") /\ IsError(trace[k].ev.res.err) }

AICommitWithoutClientAt(k) == IsHandler(k, "executeAICommit") /\ ~aiClient

\* C11: an ai-commit handler entered without a text-generation client
\* returns at once the error "AI client not available", with no diff
\* fetched and no other facade call made for the step; and in the
\* definition [ai-commit, git-add, git-commit] whose first step has
\* continueOnError = false the run then ends at step 1 with that error
\* wrapped, and neither stageAll nor commit is ever called.
C11_NoClientAbortsRun ==
    /\ \A k \in DOMAIN trace :
          AICommitWithoutClientAt(k) =>
              /\ k + 1 <= Len(trace)
              /\ IsKind(k + 1, "returned")
              /\ IsError(trace[k + 1].ev.err)
              /\ trace[k + 1].ev.err.format = "AI client not available"
              /\ \A m \in DOMAIN trace :
                    trace[m].step = trace[k].step => ~IsFacadeCall(m)
    /\ (ScenarioA /\ ~aiClient /\ ~workflow.Steps[1].ContinueOnError) =>
          /\ \A k \in DOMAIN trace : ~IsFacadeCall(k)
          /\ idx <= 1
          /\ pc = "done" =>
                /\ IsError(result)
                /\ result.arg = workflow.Steps[1].Name
                /\ result.cause.format = "AI client not available"

\* Scenario B has run: the ai-commit step was entered and the run is over.
C11_Witness ==
    /\ ScenarioA /\ ~aiClient /\ ~workflow.Steps[1].ContinueOnError
    /\ pc = "done"
    /\ \E k \in DOMAIN trace : AICommitWithoutClientAt(k) /\ trace[k].step = 1

(***************************************************************************)
(* C12                                                                     *)
(***************************************************************************)
\* Whatever executeStep returned for a create-pr step is success with the
\* Context the loop held before it, the loop reports the step completed,
\* and no facade call is on record for the step.
C12_CreatePRReturnsSuccess ==
    \A k \in DOMAIN trace :
        (IsKind(k, "returned") /\ trace[k].ev.op = "create-pr") =>
            /\ trace[k].ev.err = Nil
            /\ k + 1 <= Len(trace)
            /\ IsNotice(k + 1, "Success", "Step completed: %s")
            /\ \A m \in DOMAIN trace :
                  /\ (trace[m].step = trace[k].step) => ~IsFacadeCall(m)
                  /\ (trace[m].step = trace[k].step /\ IsKind(m, "handler")) =>
                        trace[k].ev.context = trace[m].ev.context

\* The loop iteration that looks at a create-pr step leaves the Context
\* alone and does not end the run.
C12_CreatePRKeepsContext ==
    (pc = "loop" /\ idx <= NumSteps /\ workflow.Steps[idx].Action = "create-pr") =>
        /\ context' = context
        /\ pc' = "loop"
        /\ result' = result

\* C12: a create-pr step, at any position of any definition, reports
\* success, has no VCS or text-generation call on record and leaves the
\* Context as it found it.
C12_CreatePRIsInert ==
    []C12_CreatePRReturnsSuccess /\ [][C12_CreatePRKeepsContext]_vars

\* A real run whose second step is a create-pr step that has returned,
\* with a Context the first step has written to.
C12_Witness ==
    /\ ~dryRun
    /\ context.Branch = "dev"
    /\ \E k \in DOMAIN trace :
          /\ IsKind(k, "returned") /\ trace[k].ev.op = "create-pr"
          /\ trace[k].step = 2

(***************************************************************************)
(* C13                                                                     *)
(***************************************************************************)
\* The records of executeStep returning an error.
FailedReturns == { k \in DOMAIN trace : IsKind(k, "returned") /\ IsError(trace[k].ev.err) }

FatalReturns == { k \in DOMAIN trace : FatalAt(k) }

\* The value Execute() returned is the single wrapped error of the step
\* whose failure is on record at k.
ResultWraps(k) ==
    /\ IsError(result)
    /\ result.format = "step '%s' failed: %w"
    /\ result.arg = workflow.Steps[trace[k].step].Name
    /\ result.cause = trace[k].ev.err
    /\ ~IsError(result.cause.cause) \/ result.cause.format # "step '%s' failed: %w"

\* C13 as stated: Execute() returns nil or an error wrapping the failure of
\* the first step that failed fatally, and it returns nil only when no
\* dispatched step failed.
C13_Original ==
    pc = "done" =>
        /\ result = Nil \/ IsError(result)
        /\ IsError(result) =>
              \E k \in FatalReturns :
                  /\ ResultWraps(k)
                  /\ \A m \in FatalReturns : k <= m
        /\ result = Nil => FailedReturns = {}

\* C13 as amended: Execute() returns nil or an error wrapping the failure
\* of the first step that failed fatally, and it returns nil exactly when
\* no dispatched step with continueOnError = false failed; every failure
\* on record in a run that returned nil is one of a step with
\* continueOnError = true and was reported by a warning.
C13_NilOrFirstFatalError ==
    pc = "done" =>
        /\ result = Nil \/ IsError(result)
        /\ IsError(result) =>
              \E k \in FatalReturns :
                  /\ ResultWraps(k)
                  /\ \A m \in FatalReturns : k <= m
        /\ result = Nil <=> FatalReturns = {}
        /\ result = Nil =>
              \A k \in FailedReturns :
                  /\ ToleratedAt(k)
                  /\ IsNotice(k + 1, "Warning", "Step failed but continuing: %v")

\* A run that tolerated a failure of its first step and was ended by the
\* fatal failure of its second.
C13_Witness ==
    /\ pc = "done" /\ IsError(result)
    /\ \E k \in FailedReturns : ToleratedAt(k) /\ trace[k].step = 1
    /\ \E k \in FatalReturns : trace[k].step = 2

(***************************************************************************)
(* C14                                                                     *)
(***************************************************************************)
\* The workflows of the configuration the process has loaded.
LoadedWorkflows ==
    store[IF command.cfgFile = "" THEN HomeConfigFile ELSE command.cfgFile]

\* The loaded configuration has no enabled workflow of the name given on
\* the command line: there is none of that name, or it is disabled.
NotRunnable ==
    \A i \in DOMAIN LoadedWorkflows :
        LoadedWorkflows[i].Name = command.name => ~LoadedWorkflows[i].Enabled

\* C14: a run command whose <workflow-name> names no workflow of the loaded
\* configuration, or a disabled one, has returned an error that says so,
\* has built no executor, and has no dispatch, handler entry, VCS call or
\* text-generation call on record; and whenever a run command has built an
\* executor, its workflow is an enabled workflow of that name from the
\* loaded configuration.
C14_DisabledWorkflowNeverRuns ==
    command.cmd = "run" =>
        /\ NotRunnable =>
              /\ pc = "done"
              /\ IsError(result)
              /\ result.format \in {"workflow not found: %s", "workflow disabled: %s"}
              /\ result.arg = command.name
              /\ (result.format = "workflow not found: %s") <=>
                    (\A i \in DOMAIN LoadedWorkflows :
                        LoadedWorkflows[i].Name # command.name)
              /\ workflow = NoWorkflow
              /\ \A k \in DOMAIN trace :
                    trace[k].ev.kind \notin {"dispatch", "handler", "returned", "vcs", "ai"}
        /\ (workflow # NoWorkflow \/ pc \in {"start", "loop"}) =>
              /\ workflow.Enabled
              /\ workflow.Name = command.name
              /\ \E i \in DOMAIN LoadedWorkflows : LoadedWorkflows[i] = workflow

\* The second process is a run command for a workflow that the
\* configuration it loaded holds disabled, and it was turned away.
C14_Witness ==
    /\ command.cmd = "run"
    /\ command.n = 2
    /\ \E i \in DOMAIN LoadedWorkflows :
          LoadedWorkflows[i].Name = command.name /\ ~LoadedWorkflows[i].Enabled
    /\ pc = "done"
    /\ result.format = "workflow disabled: %s"

(***************************************************************************)
(* C15                                                                     *)
(***************************************************************************)
\* The calls of config.Save on record.
SaveCalls == { k \in DOMAIN trace : trace[k].ev.kind = "config" /\ trace[k].ev.op = "Save" }

\* The user has ended the step entry of the create command (the "Step name"
\* prompt returned the empty string) and no step has been added.
FinishedWithZeroSteps ==
    /\ command.cmd = "create"
    /\ \E k \in DOMAIN trace :
          /\ IsNotice(k, "Input", "Step name")
          /\ ~IsError(trace[k].ev.res.err)
          /\ trace[k].ev.res.value = ""
    /\ \A k \in DOMAIN trace : ~IsNotice(k, "Success", "Added step: %s")

\* A create command that ended its step entry with zero steps has returned
\* the error "no steps defined" and has not called config.Save; and every
\* configuration a create command hands to config.Save ends with a workflow
\* of the name given that has at least one step.
C15_ZeroStepsIsAnError ==
    /\ FinishedWithZeroSteps =>
          /\ pc = "done"
          /\ IsError(result)
          /\ result.format = "no steps defined"
          /\ SaveCalls = {}
    /\ command.cmd = "create" =>
          \A k \in SaveCalls :
              LET saved == trace[k].ev.workflows
              IN /\ Len(saved) >= 1
                 /\ saved[Len(saved)].Name = command.name
                 /\ Len(saved[Len(saved)].Steps) >= 1

\* A create command leaves the configuration files as they are or appends
\* to the workflows it loaded one workflow, which has at least one step,
\* and writes them to the saved configuration.
C15_CreateAppendsSteps ==
    (command'.n # command.n /\ command'.cmd = "create") =>
        \/ store' = store
        \/ \E w \in {store'[SavedConfigFile][Len(store'[SavedConfigFile])]} :
              /\ Len(w.Steps) >= 1
              /\ w.Name = command'.name
              /\ result' = Nil
              /\ store' = [store EXCEPT ![SavedConfigFile] =
                    Append(store[IF command'.cfgFile = "" THEN HomeConfigFile
                                 ELSE command'.cfgFile], w)]

\* C15: the create command never saves a workflow with an empty step list:
\* when the user ends the step entry with zero steps it returns an error
\* and the saved configuration is unchanged, and every workflow it saves
\* has at least one step.
C15_CreateNeverSavesEmptyWorkflow ==
    []C15_ZeroStepsIsAnError /\ [][C15_CreateAppendsSteps]_vars

\* A create command whose step entry was ended with zero steps has returned.
C15_Witness ==
    /\ FinishedWithZeroSteps
    /\ pc = "done"
    /\ command.name = "nightly"

(***************************************************************************)
(* C16                                                                     *)
(***************************************************************************)
\* The records of one kind written for the step at position i.
RecordsOf(i, kind) == { k \in DOMAIN trace : trace[k].step = i /\ IsKind(k, kind) }

\* C16: the history is strictly sequential.  The records of the loop are in
\* step order; executeStep is entered and left at most once per step; a
\* handler is entered at most once per step, between the entry and the
\* return of executeStep for that step; every VCS or text-generation call,
\* recorded with the result it returned, lies between the entry of its
\* step's handler and the return of executeStep for that step; and nothing
\* of a later step is on record before that return.
C16_StrictlySequential ==
    /\ \A k, m \in DOMAIN trace :
          (k < m /\ trace[k].step >= 1 /\ trace[m].step >= 1) =>
              trace[k].step <= trace[m].step
    /\ \A i \in 1..NumSteps :
          /\ Cardinality(RecordsOf(i, "dispatch")) <= 1
          /\ Cardinality(RecordsOf(i, "handler")) <= 1
          /\ Cardinality(RecordsOf(i, "returned")) = Cardinality(RecordsOf(i, "dispatch"))
          /\ \A d \in RecordsOf(i, "dispatch") : \A r \in RecordsOf(i, "returned") :
                /\ d < r
                /\ \A h \in RecordsOf(i, "handler") : d < h /\ h < r
                /\ \A c \in RecordsOf(i, "vcs") \cup RecordsOf(i, "ai") :
                      /\ "res" \in DOMAIN trace[c].ev
                      /\ \E h \in RecordsOf(i, "handler") : h < c
                      /\ c < r
                /\ \A m \in DOMAIN trace : trace[m].step > i => r < m
          /\ (RecordsOf(i, "dispatch") = {}) =>
                (RecordsOf(i, "handler") \cup RecordsOf(i, "vcs") \cup RecordsOf(i, "ai")) = {}

\* A finished run whose first two steps both made facade calls.
C16_Witness ==
    /\ pc = "done"
    /\ RecordsOf(1, "vcs") \cup RecordsOf(1, "ai") # {}
    /\ RecordsOf(2, "vcs") \cup RecordsOf(2, "ai") # {}

(***************************************************************************)
(* C17                                                                     *)
(***************************************************************************)
\* The staged diff was retrieved at record k and holds no file.
EmptyStagedDiffAt(k) ==
    /\ IsVcs(k, "GetStagedDiff")
    /\ ~IsError(trace[k].ev.res.err)
    /\ Len(trace[k].ev.res.Files) = 0

\* C17: when an ai-commit step retrieved the staged diff and it holds no
\* file, the next call is the retrieval of the unstaged diff, and when
\* that diff holds files a commit message is generated from it.
C17_EmptyStagedDiffFallsBack ==
    \A k \in DOMAIN trace :
        EmptyStagedDiffAt(k) =>
            /\ k + 1 <= Len(trace)
            /\ IsVcs(k + 1, "GetDiff")
            /\ Len(trace[k + 1].ev.res.Files) > 0 =>
                  \E m \in DOMAIN trace :
                      /\ trace[m].step = trace[k].step
                      /\ IsKind(m, "ai")
                      /\ trace[m].ev.diff = trace[k + 1].ev.res.Files

(***************************************************************************)
(* C18                                                                     *)
(***************************************************************************)
\* C18: whenever a VCS or text-generation call made inside a step returned
\* an error, executeStep returned an error for that step.
C18_CollaboratorErrorFailsStep ==
    \A k \in DOMAIN trace :
        (IsFacadeCall(k) /\ IsError(trace[k].ev.res.err)) =>
            \A r \in RecordsOf(trace[k].step, "returned") : IsError(trace[r].ev.err)

(***************************************************************************)
(* C19                                                                     *)
(***************************************************************************)
\* The text-generation calls that returned a text, made in ai-commit steps
\* that returned success, before record c.
GeneratedBefore(c) ==
    { m \in 1..(c - 1) :
        /\ IsKind(m, "ai")
        /\ ~IsError(trace[m].ev.res.err)
        /\ \E r \in RecordsOf(trace[m].step, "returned") : trace[r].ev.err = Nil }

\* C19: an ai-commit step that returned success having generated the text
\* T leaves Context.Message = T and Context.Data["commit_message"] = T,
\* whatever message the caller supplied; and a commit made after such a
\* step is made with the text the latest of them generated.
C19_GeneratedMessageIsCommitted ==
    /\ \A m \in DOMAIN trace :
          (IsKind(m, "ai") /\ ~IsError(trace[m].ev.res.err)) =>
              \A r \in RecordsOf(trace[m].step, "returned") :
                  /\ trace[r].ev.err = Nil
                  /\ trace[r].ev.context.Message = trace[m].ev.res.text
                  /\ "commit_message" \in DOMAIN trace[r].ev.context.Data
                  /\ trace[r].ev.context.Data["commit_message"] = trace[m].ev.res.text
    /\ \A c \in DOMAIN trace :
          (IsVcs(c, "Commit") /\ GeneratedBefore(c) # {}) =>
              LET m == CHOOSE g \in GeneratedBefore(c) : \A h \in GeneratedBefore(c) : h <= g
              IN trace[c].ev.args = <<trace[m].ev.res.text>>

\* The caller supplied "fix: y", an ai-commit step generated "feat: add x"
\* and a later git-commit step has called Commit.
C19_Witness ==
    \E c \in DOMAIN trace :
        /\ IsVcs(c, "Commit")
        /\ \E m \in GeneratedBefore(c) : trace[m].ev.res.text = "feat: add x"
        /\ \E h \in DOMAIN trace :
              IsHandler(h, "executeAICommit") /\ trace[h].ev.context.Message = "fix: y"

(***************************************************************************)
(* C20                                                                     *)
(***************************************************************************)
\* A branch handler was entered at record k for a step that names a branch:
\* the Context holds one, or the step's parameters have a "name" entry.
NamedBranchAt(k) ==
    /\ IsHandler(k, "executeCreateBranch") \/ IsHandler(k, "executeCheckoutBranch")
    /\ \/ trace[k].ev.context.Branch # ""
       \/ "name" \in DOMAIN workflow.Steps[trace[k].step].Parameters

\* Context.Branch when it is non-empty, otherwise parameters["name"].
ResolvedBranch(k) ==
    IF trace[k].ev.context.Branch # "" THEN trace[k].ev.context.Branch
    ELSE workflow.Steps[trace[k].step].Parameters["name"]

\* C20: a create-branch or checkout-branch step that names a branch calls
\* CreateBranch, respectively CheckoutBranch, once, with Context.Branch
\* when it is non-empty and with parameters["name"] otherwise, and returns
\* the call's error; create-branch leaves that name in Context.Branch when
\* the call succeeded and the Context as it found it when the call failed;
\* checkout-branch leaves the Context as it found it.
C20_BranchNameResolution ==
    \A k \in DOMAIN trace :
        NamedBranchAt(k) =>
            LET i == trace[k].step
                create == IsHandler(k, "executeCreateBranch")
                calls == RecordsOf(i, "vcs")
            IN /\ Cardinality(calls) = 1
               /\ \A c \in calls : \A r \in RecordsOf(i, "returned") :
                     /\ trace[c].ev.op = (IF create THEN "CreateBranch" ELSE "CheckoutBranch")
                     /\ trace[c].ev.args = <<ResolvedBranch(k)>>
                     /\ trace[r].ev.err = trace[c].ev.res.err
                     /\ trace[r].ev.context =
                           (IF create /\ ~IsError(trace[c].ev.res.err)
                            THEN [trace[k].ev.context EXCEPT !.Branch = ResolvedBranch(k)]
                            ELSE trace[k].ev.context)

\* A create-branch step whose parameters name "dev" was entered with
\* Context.Branch = "main", its call succeeded, and a checkout-branch step
\* followed it.
C20_Witness ==
    \E k, m \in DOMAIN trace :
        /\ k < m
        /\ IsHandler(k, "executeCreateBranch")
        /\ trace[k].ev.context.Branch = "main"
        /\ "name" \in DOMAIN workflow.Steps[trace[k].step].Parameters
        /\ IsVcs(k + 2, "CreateBranch")
        /\ ~IsError(trace[k + 2].ev.res.err)
        /\ IsHandler(m, "executeCheckoutBranch")
        /\ pc = "done"

(***************************************************************************)
(* C21                                                                     *)
(***************************************************************************)
\* After the loop iteration, executeStep is on record as having returned
\* success, respectively an error, for the step at position i.
SucceededNext(i) ==
    \E k \in DOMAIN trace' :
        trace'[k].step = i /\ trace'[k].ev.kind = "returned" /\ trace'[k].ev.err = Nil

FailedNext(i) ==
    \E k \in DOMAIN trace' :
        trace'[k].step = i /\ trace'[k].ev.kind = "returned" /\ IsError(trace'[k].ev.err)

GeneratedNext(i) ==
    \E k \in DOMAIN trace' :
        trace'[k].step = i /\ trace'[k].ev.kind = "ai" /\ ~IsError(trace'[k].ev.res.err)

\* A loop iteration changes Context.Branch only when its step is a
\* create-branch step that succeeded, and Context.Message or Context.Data
\* only when its step is an ai-commit step that succeeded with a generated
\* text; an iteration whose step is skipped, fails, or has another action
\* leaves the whole Context as it was.
C21_IterationFrame ==
    (pc = "loop" /\ idx <= NumSteps) =>
        LET step == workflow.Steps[idx]
        IN /\ context'.Branch # context.Branch =>
                 step.Action = "create-branch" /\ SucceededNext(idx)
           /\ (context'.Message # context.Message \/ context'.Data # context.Data) =>
                 step.Action = "ai-commit" /\ SucceededNext(idx) /\ GeneratedNext(idx)
           /\ context'.DataNil = context.DataNil
           /\ (Selected(idx) \/ FailedNext(idx)
               \/ step.Action \notin {"create-branch", "ai-commit"}) =>
                 context' = context

\* C21: Context.Branch is changed only by a create-branch step that
\* succeeded, Context.Message and Context.Data only by an ai-commit step
\* that succeeded with generated text; every other handler, every skipped
\* step and every failing step leaves the whole Context unchanged.
C21_ContextFrame == [][C21_IterationFrame]_vars

\* A run in which a create-branch step and an ai-commit step, both
\* entered with the field empty, have written to the Context.
C21_Witness ==
    /\ context.Branch = "dev"
    /\ context.Message = "feat: add x"
    /\ \E k \in DOMAIN trace : IsHandler(k, "executeAICommit") /\ trace[k].ev.context.Message = ""
    /\ \E k \in DOMAIN trace : IsHandler(k, "executeCreateBranch") /\ trace[k].ev.context.Branch = ""

(***************************************************************************)
(* C22                                                                     *)
(***************************************************************************)
\* The generation call on record at k returned an error (an API error or
\* the expiry of the call's deadline).
GenerationFailedAt(k) == IsKind(k, "ai") /\ IsError(trace[k].ev.res.err)

\* C22: within one run executeStep and a handler are entered at most once
\* for each step and the generation call is made at most once for each
\* ai-commit step; when the generation call returns an error, the step
\* returns the failure "failed to generate commit message" wrapping it,
\* with the Context as the handler found it, and the failure is tolerated
\* or ends the run as the step's continueOnError says.
C22_NoRetries ==
    /\ \A i \in 1..NumSteps :
          /\ Cardinality(RecordsOf(i, "dispatch")) <= 1
          /\ Cardinality(RecordsOf(i, "handler")) <= 1
          /\ Cardinality(RecordsOf(i, "ai")) <= 1
          /\ RecordsOf(i, "ai") # {} => workflow.Steps[i].Action = "ai-commit"
    /\ \A k \in DOMAIN trace :
          GenerationFailedAt(k) =>
              LET i == trace[k].step
              IN /\ \A m \in DOMAIN trace : (m # k /\ IsKind(m, "ai")) => trace[m].step # i
                 /\ RecordsOf(i, "returned") # {}
                 /\ \A r \in RecordsOf(i, "returned") : \A h \in RecordsOf(i, "handler") :
                       /\ IsError(trace[r].ev.err)
                       /\ trace[r].ev.err.format = "failed to generate commit message: %w"
                       /\ trace[r].ev.err.cause = trace[k].ev.res.err
                       /\ trace[r].ev.context = trace[h].ev.context
                       /\ r < Len(trace) <=> workflow.Steps[i].ContinueOnError
                       /\ ~workflow.Steps[i].ContinueOnError =>
                             (pc = "done" /\ IsError(result) /\ result.cause = trace[r].ev.err)

\* An ai-commit step entered with the caller's message "fix: y" whose
\* generation call ran into its deadline.
C22_Witness ==
    \E k \in DOMAIN trace :
        /\ GenerationFailedAt(k)
        /\ trace[k].ev.res.err.format = "context deadline exceeded"
        /\ context.Message = "fix: y"
        /\ pc = "done"

(***************************************************************************)
(* C23                                                                     *)
(***************************************************************************)
\* The second call of Execute() on an engine is about to start.
SecondCallStarts == pc = "start" /\ EarlierCalls # {}

C23_SecondCallFindsFirstRunsContext ==
    SecondCallStarts =>
        \A k \in EarlierCalls :
            /\ context = trace[k].ev.context
            /\ ~context.DataNil
            /\ trace[k].ev.written.Branch # {} => context.Branch \in trace[k].ev.written.Branch
            /\ trace[k].ev.written.Message # {} => context.Message \in trace[k].ev.written.Message
            /\ trace[k].ev.written.Data # {} => context.Data \in trace[k].ev.written.Data

\* Execute() up to its loop keeps the branch and the message of the Context
\* it finds, and the data map unless that is nil.
C23_ExecuteDoesNotReset ==
    pc = "start" =>
        /\ context'.Branch = context.Branch
        /\ context'.Message = context.Message
        /\ ~context.DataNil => context' = context
        /\ context.DataNil => (context'.Data = EmptyData /\ ~context'.DataNil)

NoticesAt(i, level, format) ==
    { k \in DOMAIN trace : trace[k].step = i /\ IsNotice(k, level, format) }

DryRunNotices == NoticesAt(0, "Warning", "DRY RUN MODE - No changes will be made")

FinalReports == NoticesAt(0, "Success", "Workflow '%s' completed successfully")

\* C24: the dry-run notice is sent exactly once in a dry run (and never
\* otherwise), before any record of a step; every step the loop has dealt
\* with has exactly one of "Skipping step i: name" and "Executing step i:
\* name", a step it has not reached has neither, and the latter precedes
\* the step's dispatch; "Step completed: name" is sent for a step if and
\* only if its dispatch returned without error; and "Workflow ... completed
\* successfully" is sent if and only if Execute() has returned nil.
C24_ReportingProtocol ==
    /\ Cardinality(DryRunNotices) = (IF dryRun /\ pc # "start" THEN 1 ELSE 0)
    /\ \A d \in DryRunNotices : \A k \in DOMAIN trace : trace[k].step >= 1 => d < k
    /\ \A i \in 1..NumSteps :
          LET skipping == NoticesAt(i, "Info", "Skipping step %d: %s")
              executing == NoticesAt(i, "Info", "Executing step %d: %s")
              completed == NoticesAt(i, "Success", "Step completed: %s")
          IN /\ Cardinality(skipping) + Cardinality(executing) =
                    (IF i <= Examined THEN 1 ELSE 0)
             /\ \A k \in skipping \cup executing :
                    trace[k].ev.args = <<Ordinal[i], workflow.Steps[i].Name>>
             /\ executing # {} <=> RecordsOf(i, "dispatch") # {}
             /\ \A e \in executing : \A d \in RecordsOf(i, "dispatch") : e < d
             /\ Cardinality(completed) <= 1
             /\ completed # {} <=>
                    \E r \in RecordsOf(i, "returned") : ~IsError(trace[r].ev.err)
             /\ \A c \in completed :
                    /\ trace[c].ev.args = <<workflow.Steps[i].Name>>
                    /\ \A r \in RecordsOf(i, "returned") : r < c
    /\ Cardinality(FinalReports) <= 1
    /\ FinalReports # {} <=> (pc = "done" /\ result = Nil)
    /\ \A f \in FinalReports : f = Len(trace) /\ trace[f].ev.args = <<workflow.Name>>

\* A dry run that returned nil after a skipped step and a step reported as
\* completed.
C24_Witness ==
    /\ pc = "done" /\ result = Nil /\ dryRun
    /\ DryRunNotices # {}
    /\ FinalReports # {}
    /\ \E i, j \in 1..NumSteps :
          /\ NoticesAt(i, "Info", "Skipping step %d: %s") # {}
          /\ NoticesAt(j, "Info", "Executing step %d: %s") # {}
          /\ NoticesAt(j, "Success", "Step completed: %s") # {}

(***************************************************************************)
(* C25                                                                     *)
(***************************************************************************)
\* Every step of Execute() either moves the loop on by one step or ends the
\* run where it is.
C25_IndexAdvances ==
    \/ idx' = idx + 1
    \/ pc' = "done" /\ idx' = idx

\* A run that has ended has ended with the failure of a step that is not
\* tolerated, or after the last step.
C25_EndsAtFailureOrAfterLastStep ==
    pc = "done" =>
        \/ /\ result = Nil
           /\ idx = NumSteps + 1
        \/ /\ IsError(result)
           /\ idx \in 1..NumSteps
           /\ ~workflow.Steps[idx].ContinueOnError
           /\ \E r \in RecordsOf(idx, "returned") :
                 /\ r = Len(trace)
                 /\ IsError(trace[r].ev.err)
                 /\ result = StepError(workflow.Steps[idx], trace[r].ev.err)

\* C25: for every workflow definition, skip list and dry-run setting, when
\* every call of a facade returns, Execute() returns: the step index grows
\* by one with every step of the loop, and the run ends with the first
\* failure that is not tolerated or after the last step.
C25_ExecuteTerminates ==
    /\ <>(pc = "done")
    /\ [][C25_IndexAdvances]_vars
    /\ []C25_EndsAtFailureOrAfterLastStep

\* A run over MaxSteps steps that ended after the last of them, having
\* skipped one step and tolerated the failure of another.
C25_Witness ==
    /\ pc = "done" /\ result = Nil
    /\ NumSteps = MaxSteps /\ idx = MaxSteps + 1
    /\ \E i \in 1..NumSteps : Selected(i)
    /\ \E k \in DOMAIN trace : IsNotice(k, "Warning", "Step failed but continuing: %v")

(***************************************************************************)
(* C26                                                                     *)
(***************************************************************************)
\* formatDiffForAI has returned.
Formatted == prompt.at = "return"

\* The positions of the content lines written, of all files and of file f.
ContentLines == { k \in DOMAIN prompt.text : prompt.text[k].kind = "content" }

ContentLinesOf(f) == { k \in ContentLines : prompt.text[k].file = f }

FileHeaders == { k \in DOMAIN prompt.text : prompt.text[k].kind = "header" }

\* C26: for every diff and every maxLines >= 0, formatDiffForAI writes at
\* most maxLines content lines in all and at most 52 for any one file; no
\* file header is written once maxLines content lines have been written,
\* and when that leaves a file without its header the text ends with the
\* truncation marker.
C26_PromptIsBounded ==
    Formatted =>
        /\ prompt.maxLines >= 0
        /\ Cardinality(ContentLines) <= prompt.maxLines
        /\ \A f \in 1..Len(prompt.diff) :
              Cardinality(ContentLinesOf(f)) <= FileLineLimit + 2
        /\ \A h \in FileHeaders :
              Cardinality({ k \in ContentLines : k < h }) < prompt.maxLines
        /\ Cardinality(FileHeaders) < Len(prompt.diff) <=>
              prompt.text[Len(prompt.text)].kind = "files truncated"
        /\ Cardinality(FileHeaders) < Len(prompt.diff) =>
              Cardinality(ContentLines) = prompt.maxLines

\* A diff of two files formatted with maxLines = 52: the first file has
\* more than 52 lines of which exactly 52 are written, and the second file
\* gets the truncation marker for a header.
C26_Witness ==
    /\ Formatted
    /\ Len(prompt.diff) = 2
    /\ Len(prompt.diff[1].Content) > FileLineLimit + 2
    /\ Cardinality(ContentLinesOf(1)) = FileLineLimit + 2
    /\ prompt.maxLines = FileLineLimit + 2
    /\ \E k \in DOMAIN prompt.text : prompt.text[k] = FileTruncated(1)
    /\ Cardinality(FileHeaders) = 1
    /\ prompt.text[Len(prompt.text)] = FilesTruncated(2)

(***************************************************************************)
(* C27                                                                     *)
(***************************************************************************)
\* No two workflows of the list bear the same name.
UniqueNames(workflows) ==
    \A i, j \in DOMAIN workflows : workflows[i].Name = workflows[j].Name => i = j

\* A process is started with the subcommand cmd.
Starts(cmd) == pc = "idle" /\ pc' = "done" /\ command'.cmd = cmd

\* The configuration the process being started loads.
LoadedAtStart == Load(store, command'.cfgFile)

\* The configurations the command that has just run handed to config.Save.
SavedAtEnd ==
    { trace'[k].ev.workflows :
        k \in { k \in DOMAIN trace' : trace'[k].ev.kind = "config" /\ trace'[k].ev.op = "Save" } }

\* The names of every configuration file, and of every configuration handed
\* to config.Save, are pairwise distinct.
C27_NamesAreUnique ==
    /\ \A f \in ConfigFiles : UniqueNames(store[f])
    /\ \A k \in SaveCalls : UniqueNames(trace[k].ev.workflows)

\* A create command whose name is borne by a workflow of the configuration
\* it loads returns "workflow already exists", calls config.Save not at all
\* and leaves the configuration files as they are.
C27_CreateOfExistingName ==
    (Starts("create")
     /\ \E i \in DOMAIN LoadedAtStart : LoadedAtStart[i].Name = command'.name) =>
        /\ result' = Errorf("workflow already exists: %s", command'.name, Nil)
        /\ SavedAtEnd = {}
        /\ store' = store

\* C27: from configuration files whose workflow names are pairwise
\* distinct, the names stay pairwise distinct through every sequence of
\* create, delete, enable and disable commands (and runs); and a create of
\* a name the configuration already has returns the error "workflow already
\* exists" and leaves the saved configuration unchanged.
C27_NamesStayUnique ==
    /\ []C27_NamesAreUnique
    /\ [][C27_CreateOfExistingName]_vars

\* The second command of a session is a create of the name a create before
\* it has saved, and has returned "workflow already exists".
C27_Witness ==
    /\ command.n = 2 /\ command.cmd = "create" /\ pc = "done"
    /\ command.cfgFile = SavedConfigFile
    /\ IsError(result) /\ result.format = "workflow already exists: %s"
    /\ \E i \in DOMAIN store[SavedConfigFile] :
          /\ store[SavedConfigFile][i].Name = command.name
          /\ \A j \in DOMAIN InitialWorkflows[SavedConfigFile] :
                InitialWorkflows[SavedConfigFile][j].Name # command.name

(***************************************************************************)
(* C28                                                                     *)
(***************************************************************************)
\* The positions of the workflows of the loaded configuration that bear the
\* name given on the command line.
NamedAtStart == { i \in DOMAIN LoadedAtStart : LoadedAtStart[i].Name = command'.name }

\* The command that has just run returned without saving.
ReturnedWithoutSaving == SavedAtEnd = {} /\ store' = store

\* The list differs from the loaded configuration in nothing but the
\* enabled flag of the workflow at i, which is `enabled`.
OnlyFlagChanged(workflows, i, enabled) ==
    /\ Len(workflows) = Len(LoadedAtStart)
    /\ \A j \in DOMAIN workflows :
          /\ workflows[j].Name = LoadedAtStart[j].Name
          /\ workflows[j].Steps = LoadedAtStart[j].Steps
          /\ workflows[j].Enabled = (IF j = i THEN enabled ELSE LoadedAtStart[j].Enabled)

\* An enable or disable command.
C28_StatusFrame(subcommand, enabled) ==
    Starts(subcommand) =>
        IF NamedAtStart = {}
        THEN /\ ReturnedWithoutSaving
             /\ result' = Errorf("workflow not found: %s", command'.name, Nil)
        ELSE /\ \E w \in SavedAtEnd : SavedAtEnd = {w}
             /\ \A w \in SavedAtEnd :
                   /\ \E i \in NamedAtStart : OnlyFlagChanged(w, i, enabled)
                   /\ (\A i \in NamedAtStart : LoadedAtStart[i].Enabled = enabled)
                         => w = LoadedAtStart
                   /\ store' = (IF result' = Nil THEN Save(store, w) ELSE store)
                   /\ (result' = Nil /\ command'.cfgFile = SavedConfigFile) =>
                         \A f \in ConfigFiles :
                            store'[f] = (IF f = SavedConfigFile THEN w ELSE store[f])

\* A delete command of a name the configuration has not, or one whose
\* confirmation is declined.
C28_DeleteFrame ==
    Starts("delete") =>
        /\ NamedAtStart = {} =>
              /\ ReturnedWithoutSaving
              /\ result' = Errorf("workflow not found: %s", command'.name, Nil)
        /\ (\E k \in DOMAIN trace' : trace'[k].ev = UiConfirm(FALSE, Nil)) =>
              /\ ReturnedWithoutSaving
              /\ result' = Nil

\* C28: enable and disable hand to config.Save the configuration they
\* loaded with nothing changed but the enabled flag of the workflow of that
\* name (steps, other workflows and order are as loaded), and with nothing
\* changed at all when the flag already had the value; enable, disable and
\* delete of a name the configuration has not, and a delete whose
\* confirmation is declined, return without saving and leave the
\* configuration files as they are.
C28_StatusChangesOnlyTheFlag ==
    [][/\ C28_StatusFrame("enable", TRUE)
       /\ C28_StatusFrame("disable", FALSE)
       /\ C28_DeleteFrame]_vars

\* An enable of a disabled default workflow, read from and saved to the
\* same file: the file holds its two workflows as before, the first of them
\* enabled now.
C28_Witness ==
    /\ command.cmd = "enable" /\ command.name = "auto-commit-push"
    /\ command.cfgFile = SavedConfigFile
    /\ pc = "done" /\ result = Nil
    /\ \E k \in SaveCalls : trace[k].ev.workflows = store[SavedConfigFile]
    /\ store[SavedConfigFile] =
          [InitialWorkflows[SavedConfigFile] EXCEPT ![1].Enabled = TRUE]
    /\ store[HomeConfigFile] = InitialWorkflows[HomeConfigFile]

(***************************************************************************)
(* C29                                                                     *)
(***************************************************************************)
\* What a dry run has on record for the step at i: the skip notice, or the
\* notices of a step that is executed and completed.
DryRunStep(i) ==
    LET step == workflow.Steps[i]
    IN IF Selected(i)
       THEN <<Notify("Info", "Skipping step %d: %s", <<Ordinal[i], step.Name>>)>>
       ELSE <<Notify("Info", "Executing step %d: %s", <<Ordinal[i], step.Name>>),
              [kind |-> "dispatch", op |-> step.Action, name |-> step.Name],
              Notify("Printf", "  Would execute: %s", <<step.Action>>),
              [kind |-> "returned", op |-> step.Action, name |-> step.Name,
               err |-> Nil, context |-> context],
              Notify("Success", "Step completed: %s", <<step.Name>>)>>

RECURSIVE DryRunSteps(_)
DryRunSteps(n) ==
    IF n = 0 THEN <<>> ELSE DryRunSteps(n - 1) \o At(n, DryRunStep(n))

\* The whole history of a dry run that has returned.  It is made from the
\* names and the actions of the steps and from the skip selectors alone.
DryRunTrace ==
    At(0, <<Notify("Header", "Executing Workflow: %s", <<workflow.Name>>),
            Notify("Warning", "DRY RUN MODE - No changes will be made", <<>>)>>)
    \o DryRunSteps(NumSteps)
    \o At(0, <<Notify("Success", "Workflow '%s' completed successfully", <<workflow.Name>>)>>)

\* The step at i would fail if it were run for real in the Context of the
\* dry run.
WouldFail(i) ==
    LET step == workflow.Steps[i]
    IN \/ step.Action \notin TableActions
       \/ step.Action = "ai-commit" /\ ~aiClient
       \/ /\ step.Action = "create-branch"
          /\ context.Branch = ""
          /\ "name" \notin DOMAIN step.Parameters

\* A dry run never ends with an error, and one that has returned has
\* returned nil with every step that is not skipped reported as completed,
\* whatever its action, its parameters and its continueOnError.
C29_DryRunReturnsNil ==
    dryRun =>
        /\ ~IsError(result)
        /\ pc = "done" => (result = Nil /\ trace = DryRunTrace)

\* No step of a dry run changes the branch, the message or the data of the
\* Context (Execute makes the data map, which stays empty).
C29_DryRunKeepsContext ==
    dryRun =>
        /\ context'.Branch = context.Branch
        /\ context'.Message = context.Message
        /\ context'.Data = context.Data

\* C29: with dry-run on, Execute() always returns nil and leaves the
\* Context unchanged, for every definition: the steps that would fail in a
\* real run are reported as completed like the others, and continueOnError
\* has no effect on what is reported or returned.
C29_DryRunIsInert ==
    /\ []C29_DryRunReturnsNil
    /\ [][C29_DryRunKeepsContext]_vars

\* A dry run without a text-generation client that has returned: its steps
\* are an ai-commit step and a step with the action "deploy", both with
\* continueOnError = false, and both are reported as completed.
C29_Witness ==
    /\ dryRun /\ pc = "done" /\ ~aiClient /\ NumSteps = 2
    /\ workflow.Steps[1].Action = "ai-commit"
    /\ workflow.Steps[2].Action = "deploy"
    /\ \A i \in 1..NumSteps :
          /\ WouldFail(i) /\ ~Selected(i) /\ ~workflow.Steps[i].ContinueOnError
          /\ NoticesAt(i, "Success", "Step completed: %s") # {}

(***************************************************************************)
(* C30                                                                     *)
(***************************************************************************)
\* The records that carry a Context: the entries and returns of handlers.
ContextRecords ==
    { k \in DOMAIN trace : IsKind(k, "handler") \/ IsKind(k, "returned") }

\* The calls of CreateBranch and CheckoutBranch on record.
BranchCalls == { c \in DOMAIN trace : IsVcs(c, "CreateBranch") \/ IsVcs(c, "CheckoutBranch") }

\* C30: once Context.Branch is non-empty in a run it keeps its value, and
\* every later call of CreateBranch and CheckoutBranch in the run is made
\* with exactly that value, whatever the step's parameters["name"]; a call
\* is made with the step's parameters["name"] only by a step that was
\* entered with Context.Branch empty.
C30_ContextBranchWins ==
    /\ \A k \in ContextRecords :
          trace[k].ev.context.Branch # "" =>
              /\ \A m \in ContextRecords :
                    k < m => trace[m].ev.context.Branch = trace[k].ev.context.Branch
              /\ \A c \in BranchCalls :
                    k < c => trace[c].ev.args = <<trace[k].ev.context.Branch>>
    /\ \A c \in BranchCalls :
          \A h \in RecordsOf(trace[c].step, "handler") :
              /\ h < c
              /\ trace[h].ev.context.Branch = "" =>
                    /\ "name" \in DOMAIN workflow.Steps[trace[c].step].Parameters
                    /\ trace[c].ev.args = <<workflow.Steps[trace[c].step].Parameters["name"]>>
              /\ trace[h].ev.context.Branch # "" =>
                    trace[c].ev.args = <<trace[h].ev.context.Branch>>

\* A run entered with an empty branch: its first step created the branch
\* "dev" named by its parameters, and its second step, a create-branch
\* step whose parameters name "", called CreateBranch with "dev".
C30_Witness ==
    /\ NumSteps = 2
    /\ workflow.Steps[1].Action = "create-branch"
    /\ workflow.Steps[2].Action = "create-branch"
    /\ "name" \in DOMAIN workflow.Steps[2].Parameters
    /\ workflow.Steps[2].Parameters["name"] = ""
    /\ \E h \in RecordsOf(1, "handler") : trace[h].ev.context.Branch = ""
    /\ \E r \in RecordsOf(1, "returned") :
          ~IsError(trace[r].ev.err) /\ trace[r].ev.context.Branch = "dev"
    /\ \E c \in BranchCalls : trace[c].step = 2 /\ trace[c].ev.args = <<"dev">>

====
